---- MODULE Spec2Model ----
(***************************************************************************)
(* Model of src/parallels/parallels_sdk.c: the job protocol                *)
(* (getJobResult / waitJob), the session functions (prlsdkInit,            *)
(* prlsdkConnect, prlsdkDisconnect, prlsdkDeinit) and the domain loader    *)
(* (prlsdkLoadDomain, prlsdkLoadDomains, prlsdkAddDomain).                 *)
(*                                                                         *)
(* SDK handles are entries of the table `handles`: a handle value is an    *)
(* index of the table, 0 is PRL_INVALID_HANDLE.  Each entry counts the     *)
(* references taken on the handle (acq: 1 at creation, +1 per              *)
(* PrlHandle_AddRef) and the PrlHandle_Free calls made on it (rel).        *)
(***************************************************************************)
EXTENDS Integers, Sequences, FiniteSets, TLC

VARIABLES
    handles,    \* the SDK handle table
    errs,       \* errors reported (virReportError) by the current call
    last,       \* the last completed call: its name, inputs and return value
    pending,    \* SpecJob: the job handle issued and not yet awaited, or 0
    held,       \* SpecJob: result handles the caller owns
    drv,        \* where the driver is in its open / use / close sequence
    lib,        \* the SDK library: PrlApi_InitEx successes, PrlApi_Deinit calls
    privconn,   \* parallelsConn: server handle, job timeout
    domains,    \* privconn->domains: the virDomainObj in the object store
    doms,       \* every virDomainObj ever created
    defs,       \* every virDomainDef ever allocated
    pdoms,      \* every parallelsDomObj (private data) ever allocated
    pc,         \* the statement the running call is at, "idle" between calls
    cs,         \* locals of the running prlsdkLoadDomains / prlsdkAddDomain
    ld,         \* locals of the running prlsdkLoadDomain
    nops,       \* prlsdkAddDomain calls and refreshes made so far
    heap,       \* SpecBuffer: every memory block malloc or realloc handed out
    buffer      \* SpecBuffer: the virBuffer the calls work on

jobVars == <<pending, held>>
heapVars == <<domains, doms, defs, pdoms>>
sessVars == <<drv, lib, privconn>>
bufVars == <<heap, buffer>>
mainVars == <<drv, lib, privconn, domains, doms, defs, pdoms, pc, cs, ld, nops,
              heap, buffer>>
vars == <<handles, errs, last, pending, held,
          drv, lib, privconn, domains, doms, defs, pdoms, pc, cs, ld, nops,
          heap, buffer>>

---------------------------------------------------------------------------
(* Bounds *)

\* number of distinct SDK failure codes
MaxErr == 2
\* SpecJob: number of jobs issued in one behaviour
MaxJobs == 3
\* the width, in bits, PRL_UINT32 is modelled with
UintBits == 8
\* number of virtual machines the hypervisor knows
MaxDomains == 2
\* number of prlsdkAddDomain calls and refreshes in one session
MaxOps == 1
\* how many of the most recently created handle values a read of an unset
\* variable or of freed memory can turn up
MaxStale == 1

---------------------------------------------------------------------------
(* SDK values *)

PRL_INVALID_HANDLE == 0

UINT_MAX == 2 ^ UintBits - 1

JOB_INFINIT_WAIT_TIMEOUT == UINT_MAX

\* PRL_RESULT: 0 is success, a failure code is negative (PRL_FAILED)
ErrCodes == (0 - MaxErr) .. (0 - 1)

Codes == ErrCodes \cup {0}

\* the code PrlJob_Wait returns when the deadline elapses
PRL_ERR_TIMEOUT == 0 - (MaxErr + 1)

PRL_FAILED(c) == c < 0

\* the timeouts a caller may pass: a deadline, or "wait indefinitely"
Timeouts == {100, JOB_INFINIT_WAIT_TIMEOUT}

NewHandle(hs, kind, uuid) ==
    Append(hs, [kind |-> kind, acq |-> 1, rel |-> 0, uuid |-> uuid])

\* PrlHandle_Free: one reference dropped; PRL_INVALID_HANDLE is refused
PrlHandle_Free(hs, h) ==
    IF h \in 1..Len(hs) THEN [hs EXCEPT ![h].rel = @ + 1] ELSE hs

PrlHandle_AddRef(hs, h) ==
    IF h \in 1..Len(hs) THEN [hs EXCEPT ![h].acq = @ + 1] ELSE hs

Live(hs, h) == h \in 1..Len(hs) /\ hs[h].rel < hs[h].acq

---------------------------------------------------------------------------
(* Errors reported through virReportError *)

ErrPrl(code) == <<"VIR_ERR_INTERNAL_ERROR", "prl", code>>

ErrEvent == <<"VIR_ERR_INTERNAL_ERROR", "event", 0>>

ErrOom == <<"VIR_ERR_NO_MEMORY", "oom", 0>>

\* logPrlErrorHelper: the description of code err is reported, unless a
\* message buffer cannot be allocated (VIR_ALLOC_N reports that itself)
logPrlErrorHelper(err, mem) ==
    IF mem THEN <<ErrPrl(err)>> ELSE <<ErrOom>>

\* logPrlEventErrorHelper: [ret, errs] for the outcomes e of the SDK calls
logPrlEventErrorHelper(e) ==
    IF e.evErrCode # 0
    THEN [ret |-> e.evErrCode, errs |-> logPrlErrorHelper(e.evErrCode, e.logMem)]
    ELSE IF ~e.evMem
    THEN [ret |-> 0 - 1, errs |-> <<ErrOom>>]
    ELSE [ret |-> 0, errs |-> <<ErrEvent>>]

---------------------------------------------------------------------------
(* The job protocol *)

\* what PrlJob_Wait(job, timeout) can return
PrlJob_Wait(timeout) ==
    Codes \cup (IF timeout # JOB_INFINIT_WAIT_TIMEOUT THEN {PRL_ERR_TIMEOUT} ELSE {})

JobEnv(w, g, rc, ge, ec, em, lm, gr) ==
    [wait |-> w, getRetCode |-> g, retCode |-> rc, getError |-> ge,
     evErrCode |-> ec, evMem |-> em, logMem |-> lm, getResult |-> gr]

\* The outcomes of the SDK calls and allocations of one await; a call that
\* is not reached has the outcome 0 (TRUE for an allocation).
JobEnvs(timeout) ==
    {JobEnv(w, 0, 0, 0, 0, TRUE, lm, 0) :
        w \in PrlJob_Wait(timeout) \ {0}, lm \in BOOLEAN}
    \cup {JobEnv(0, g, 0, 0, 0, TRUE, lm, 0) : g \in ErrCodes, lm \in BOOLEAN}
    \cup {JobEnv(0, 0, rc, ge, 0, TRUE, lm, 0) :
        rc \in ErrCodes, ge \in ErrCodes, lm \in BOOLEAN}
    \cup {JobEnv(0, 0, rc, 0, ec, TRUE, lm, 0) :
        rc \in ErrCodes, ec \in ErrCodes, lm \in BOOLEAN}
    \cup {JobEnv(0, 0, rc, 0, 0, em, lm, 0) :
        rc \in ErrCodes, em \in BOOLEAN, lm \in BOOLEAN}
    \cup {JobEnv(0, 0, 0, 0, 0, TRUE, lm, gr) : gr \in ErrCodes, lm \in BOOLEAN}
    \cup {JobEnv(0, 0, 0, 0, 0, TRUE, TRUE, 0)}

\* a getJobError that forgets the error event when the event cannot be
\* decoded
getJobError_KeepEvent(hs, e) ==
    IF e.getError # 0
    THEN [handles |-> hs, result |-> PRL_INVALID_HANDLE,
          errs |-> logPrlErrorHelper(e.getError, e.logMem)]
    ELSE LET hs1 == NewHandle(hs, "event", 0)
             err_handle == Len(hs1)
             ev == logPrlEventErrorHelper(e)
         IN  [handles |-> IF ev.ret # 0 THEN hs1
                          ELSE PrlHandle_Free(hs1, err_handle),
              result |-> PRL_INVALID_HANDLE,
              errs |-> ev.errs \o
                       (IF ev.ret # 0
                        THEN logPrlErrorHelper(e.retCode, e.logMem)
                        ELSE <<>>)]

\* getJobResultHelper, the branch of a failed operation (retCode # 0):
\* the richer error event is fetched, logged and released
getJobError(hs, e) ==
    IF e.getError # 0
    THEN [handles |-> hs, result |-> PRL_INVALID_HANDLE,
          errs |-> logPrlErrorHelper(e.getError, e.logMem)]
    ELSE LET hs1 == NewHandle(hs, "event", 0)
             err_handle == Len(hs1)
             ev == logPrlEventErrorHelper(e)
         IN  [handles |-> PrlHandle_Free(hs1, err_handle),
              result |-> PRL_INVALID_HANDLE,
              errs |-> ev.errs \o
                       (IF ev.ret # 0
                        THEN logPrlErrorHelper(e.retCode, e.logMem)
                        ELSE <<>>)]

\* getJobResultHelper up to its cleanup label: [handles, result, errs]
getJobResultBody(hs, e) ==
    IF e.wait # 0
    THEN [handles |-> hs, result |-> PRL_INVALID_HANDLE,
          errs |-> logPrlErrorHelper(e.wait, e.logMem)]
    ELSE IF e.getRetCode # 0
    THEN [handles |-> hs, result |-> PRL_INVALID_HANDLE,
          errs |-> logPrlErrorHelper(e.getRetCode, e.logMem)]
    ELSE IF e.retCode # 0
    THEN getJobError(hs, e)
    ELSE IF PRL_FAILED(e.getResult)
    THEN [handles |-> PrlHandle_Free(hs, PRL_INVALID_HANDLE),
          result |-> PRL_INVALID_HANDLE,
          errs |-> logPrlErrorHelper(e.getResult, e.logMem)]
    ELSE LET hs1 == NewHandle(hs, "result", 0)
         IN  [handles |-> hs1, result |-> Len(hs1), errs |-> <<>>]

\* a getJobResultHelper that returns from a failed wait without its cleanup
getJobResultHelper_EarlyReturn(hs, job, e) ==
    LET r == getJobResultBody(hs, e)
    IN  IF e.wait # 0 THEN r
        ELSE [r EXCEPT !.handles = PrlHandle_Free(@, job)]

\* getJobResultHelper on the handle table hs: [handles, result, errs];
\* every path ends in cleanup, which releases the job
getJobResultHelper(hs, job, e) ==
    LET r == getJobResultBody(hs, e)
    IN  [r EXCEPT !.handles = PrlHandle_Free(@, job)]

\* waitJobHelper: [handles, ret, errs]
waitJobHelper(hs, job, e) ==
    LET r == getJobResultHelper(hs, job, e)
    IN  [handles |-> IF r.result # PRL_INVALID_HANDLE
                     THEN PrlHandle_Free(r.handles, r.result)
                     ELSE r.handles,
         ret |-> IF r.result # PRL_INVALID_HANDLE THEN 0 ELSE 0 - 1,
         errs |-> r.errs]

---------------------------------------------------------------------------
(* SpecJob: the job protocol on its own.  A caller issues a job, awaits   *)
(* it with getJobResult or waitJob, and releases the results it was given. *)

NoEnv == JobEnv(0, 0, 0, 0, 0, TRUE, TRUE, 0)

\* one outcome for each path through getJobResultHelper: every failing call
\* fails with the same code and the messages can be allocated
JobPaths(timeout) ==
    {e \in JobEnvs(timeout) :
        /\ e.logMem
        /\ \A f \in {"wait", "getRetCode", "retCode", "getError", "evErrCode",
                      "getResult"} : e[f] \in {0, 0 - 1, PRL_ERR_TIMEOUT}}

\* the return codes of a synchronous SDK call inside a domain load: success
\* or failure
CallCodes == {0 - 1, 0}

NoCall == [op |-> "none", job |-> 0, timeout |-> 0, env |-> NoEnv,
           result |-> 0, ret |-> 0, before |-> <<>>]

NoFrame == [fn |-> "none"]

\* a virBuffer nothing was stored in
NoBuffer == [content |-> 0, use |-> 0, size |-> 0]

InitMain ==
    /\ drv = "start"
    /\ lib = [inits |-> 0, deinits |-> 0]
    /\ privconn = [server |-> PRL_INVALID_HANDLE, jobTimeout |-> 0]
    /\ domains = {}
    /\ doms = <<>>
    /\ defs = <<>>
    /\ pdoms = <<>>
    /\ pc = "idle"
    /\ cs = NoFrame
    /\ ld = NoFrame
    /\ nops = 0
    /\ heap = <<>>
    /\ buffer = NoBuffer

InitJob ==
    /\ handles = <<>>
    /\ errs = <<>>
    /\ last = NoCall
    /\ pending = PRL_INVALID_HANDLE
    /\ held = {}
    /\ InitMain

NumJobs == Cardinality({h \in 1..Len(handles) : handles[h].kind = "job"})

\* an asynchronous SDK call hands the caller a job handle
JobIssue ==
    /\ pending = PRL_INVALID_HANDLE
    /\ NumJobs < MaxJobs
    /\ handles' = NewHandle(handles, "job", 0)
    /\ pending' = Len(handles')
    /\ UNCHANGED <<errs, last, held>>
    /\ UNCHANGED mainVars

\* getJobResult(job, timeout): the caller owns the result it returns
JobAwait ==
    /\ pending # PRL_INVALID_HANDLE
    /\ \E timeout \in Timeouts : \E e \in JobEnvs(timeout) :
         LET r == getJobResultHelper(handles, pending, e)
         IN  /\ handles' = r.handles
             /\ errs' = r.errs
             /\ last' = [op |-> "getJobResult", job |-> pending,
                         timeout |-> timeout, env |-> e, result |-> r.result,
                         ret |-> 0, before |-> handles]
             /\ held' = IF r.result # PRL_INVALID_HANDLE
                        THEN held \cup {r.result} ELSE held
    /\ pending' = PRL_INVALID_HANDLE
    /\ UNCHANGED mainVars

\* waitJob(job, timeout): await and discard
JobWait ==
    /\ pending # PRL_INVALID_HANDLE
    /\ \E timeout \in Timeouts : \E e \in JobEnvs(timeout) :
         LET r == waitJobHelper(handles, pending, e)
         IN  /\ handles' = r.handles
             /\ errs' = r.errs
             /\ last' = [op |-> "waitJob", job |-> pending,
                         timeout |-> timeout, env |-> e, result |-> 0,
                         ret |-> r.ret, before |-> handles]
    /\ pending' = PRL_INVALID_HANDLE
    /\ UNCHANGED held
    /\ UNCHANGED mainVars

\* the owner of a result handle releases it
ResultRelease ==
    /\ \E r \in held :
         /\ handles' = PrlHandle_Free(handles, r)
         /\ held' = held \ {r}
    /\ UNCHANGED <<errs, last, pending>>
    /\ UNCHANGED mainVars

NextJob == JobIssue \/ JobAwait \/ JobWait \/ ResultRelease

SpecJob == InitJob /\ [][NextJob]_vars

---------------------------------------------------------------------------
(* The session functions *)

\* prlsdkInit, given the return code of PrlApi_InitEx: [lib, privconn, ret, errs]
prlsdkInit(l, conn, ir, mem) ==
    IF PRL_FAILED(ir)
    THEN [lib |-> l, privconn |-> conn, ret |-> 0 - 1,
          errs |-> logPrlErrorHelper(ir, mem)]
    ELSE [lib |-> [l EXCEPT !.inits = @ + 1],
          privconn |-> [conn EXCEPT !.jobTimeout = JOB_INFINIT_WAIT_TIMEOUT],
          ret |-> 0, errs |-> <<>>]

\* prlsdkDeinit
prlsdkDeinit(l) == [l EXCEPT !.deinits = @ + 1]

\* prlsdkConnect, given the return code cr of PrlSrv_Create and the
\* outcome e of the login job: [handles, privconn, ret, errs]
prlsdkConnect(hs, conn, cr, e) ==
    IF PRL_FAILED(cr)
    THEN [handles |-> hs, privconn |-> conn, ret |-> 0 - 1,
          errs |-> logPrlErrorHelper(cr, e.logMem)]
    ELSE LET hs1 == NewHandle(hs, "server", 0)
             server == Len(hs1)
             hs2 == NewHandle(hs1, "job", 0)
             job == Len(hs2)
             w == waitJobHelper(hs2, job, e)
         IN  IF w.ret # 0
             THEN [handles |-> PrlHandle_Free(w.handles, server),
                   privconn |-> [conn EXCEPT !.server = server],
                   ret |-> 0 - 1, errs |-> w.errs]
             ELSE [handles |-> w.handles,
                   privconn |-> [conn EXCEPT !.server = server],
                   ret |-> 0, errs |-> w.errs]

\* a prlsdkDisconnect that gives up when the logoff job fails
prlsdkDisconnect_StopOnFailure(hs, conn, e) ==
    LET hs1 == NewHandle(hs, "job", 0)
        job == Len(hs1)
        w == waitJobHelper(hs1, job, e)
    IN  [handles |-> IF w.ret # 0 THEN w.handles
                     ELSE PrlHandle_Free(w.handles, conn.server),
         job |-> job, errs |-> w.errs]

\* prlsdkDisconnect, given the outcome e of the logoff job:
\* [handles, job, errs]; the function returns nothing
prlsdkDisconnect(hs, conn, e) ==
    LET hs1 == NewHandle(hs, "job", 0)
        job == Len(hs1)
        w == waitJobHelper(hs1, job, e)
    IN  [handles |-> PrlHandle_Free(w.handles, conn.server),
         job |-> job, errs |-> w.errs]

---------------------------------------------------------------------------
(* The heap: virDomainDef, parallelsDomObj and virDomainObj objects.  An   *)
(* object is an index of its table, 0 is NULL; frees counts the times it   *)
(* was freed.                                                              *)

\* the values a read of an uninitialised variable or of freed memory can
\* yield where a handle is expected: no handle, or the value of one of the
\* handles created last
AnyHandle(hs) == {h \in 0 .. Len(hs) : h = 0 \/ h > Len(hs) - MaxStale}

\* the hypervisor's instance id of a virtual machine
EnvIdOf(uuid) == 40 + uuid

\* the personality of a virtual machine: container (PVT_CT) or not (PVT_VM)
IsCtOf(uuid) == uuid % 2 = 0

\* VIR_ALLOC(def), with def->id = -1
NewDef(ds, uuid) ==
    Append(ds, [uuid |-> uuid, id |-> 0 - 1, built |-> "partial", frees |-> 0])

virDomainDefFree(ds, d) ==
    IF d \in 1..Len(ds) THEN [ds EXCEPT ![d].frees = @ + 1] ELSE ds

\* VIR_ALLOC(pdom): zeroed
NewPdom(ps) ==
    Append(ps, [sdkdom |-> PRL_INVALID_HANDLE, id |-> 0, home |-> "null",
                frees |-> 0])

\* what reading pdom->sdkdom yields: the field, or anything once the
\* object was freed
ReadSdkdom(hs, ps, p) ==
    IF p \in 1..Len(ps)
    THEN IF ps[p].frees = 0 THEN {ps[p].sdkdom} ELSE AnyHandle(hs)
    ELSE {PRL_INVALID_HANDLE}

\* prlsdkDomObjFreePrivate(p), sdkdom being what pdom->sdkdom was read as:
\* [handles, pdoms]
prlsdkDomObjFreePrivate(hs, ps, p, sdkdom) ==
    IF p \notin 1..Len(ps)
    THEN [handles |-> hs, pdoms |-> ps]
    ELSE [handles |-> PrlHandle_Free(hs, sdkdom),
          pdoms |-> [ps EXCEPT ![p].frees = @ + 1]]

\* virDomainObjListAdd on a UUID the store does not hold: a new, locked
\* virDomainObj that owns def
NewDom(os, def) ==
    Append(os, [def |-> def, newDef |-> 0, privateData |-> 0,
                privateDataFreeFunc |-> FALSE, locked |-> TRUE,
                state |-> "VIR_DOMAIN_SHUTOFF",
                reason |-> "VIR_DOMAIN_SHUTOFF_UNKNOWN",
                autostart |-> 0, persistent |-> 0, disposed |-> FALSE])

\* virDomainObjListRemove: the object is unlocked, taken out of the store and
\* destroyed together with its definitions; its private data goes to
\* privateDataFreeFunc.  [handles, domains, doms, defs, pdoms]
virDomainObjListRemove(hs, st, os, ds, ps, dom, sdkdom) ==
    LET o == os[dom]
        fp == IF o.privateDataFreeFunc
              THEN prlsdkDomObjFreePrivate(hs, ps, o.privateData, sdkdom)
              ELSE [handles |-> hs, pdoms |-> ps]
    IN  [handles |-> fp.handles,
         domains |-> st \ {dom},
         doms |-> [os EXCEPT ![dom].locked = FALSE, ![dom].disposed = TRUE],
         defs |-> virDomainDefFree(virDomainDefFree(ds, o.def), o.newDef),
         pdoms |-> fp.pdoms]

virDomainObjListFindByUUID(st, os, ds, uuid) ==
    IF \E d \in st : ds[os[d].def].uuid = uuid
    THEN CHOOSE d \in st : ds[os[d].def].uuid = uuid
    ELSE 0

---------------------------------------------------------------------------
(* prlsdkLoadDomain *)

\* the steps of prlsdkLoadDomain that come before the object is published,
\* in the order of the code
BuildOrder ==
    <<"allocDef", "allocPdom", "ids", "ram", "cpuInfo", "cpuMode",
      "domainType", "video", "disks", "netCount", "netFetchFirst", "netInfo",
      "serialCount", "serialFetchFirst", "serialInfo", "vnc", "envId",
      "homeSize", "homeAlloc", "home">>

BuildPos(step) == CHOOSE i \in 1..Len(BuildOrder) : BuildOrder[i] = step

\* the steps of prlsdkAddDomainHardware
HardwareSteps ==
    {"video", "disks", "netCount", "netFetchFirst", "netInfo",
     "serialCount", "serialFetchFirst", "serialInfo"}

\* the failures after which the error path of an extractor releases a
\* device handle variable that was never set (netAdapter, serialPort)
UnsetHandleSteps ==
    {"netCount", "netFetchFirst", "serialCount", "serialFetchFirst"}

\* The outcome of the SDK calls and allocations of the build: the step that
\* fails (or "none") and, for UnsetHandleSteps, the value g of the unset
\* handle variable.
BuildEnvs(hs, olddom, isCt) ==
    {[fail |-> f, g |-> 0] :
        f \in (({"none"} \cup {BuildOrder[i] : i \in 1..Len(BuildOrder)})
               \ UnsetHandleSteps)
              \ ((IF olddom # 0 THEN {"allocPdom"} ELSE {})
                 \cup (IF isCt THEN {"video"} ELSE {}))}
    \cup {[fail |-> f, g |-> g] : f \in UnsetHandleSteps, g \in AnyHandle(hs)}

\* step was reached and succeeded
BuildDone(b, step) == b.fail = "none" \/ BuildPos(b.fail) > BuildPos(step)

\* a prlsdkAddDomainHardware that does not notice a failing serial port
prlsdkAddDomainHardware_IgnoreSerial(b) ==
    IF b.fail \in HardwareSteps \ {"serialInfo"} THEN 0 - 1 ELSE 0

\* a prlsdkAddDomainHardware that does not notice a failing network adapter
prlsdkAddDomainHardware_IgnoreNet(b) ==
    IF b.fail \in HardwareSteps \ {"netInfo"} THEN 0 - 1 ELSE 0

\* prlsdkAddDomainHardware: -1 when the extraction of a device class fails
prlsdkAddDomainHardware(b) ==
    IF b.fail \in HardwareSteps THEN 0 - 1 ELSE 0

ErrBuild(step) == <<"VIR_ERR_INTERNAL_ERROR", step, 0>>

\* prlsdkLoadDomain up to the point where the object is published: def and
\* pdom are allocated (pdom is the private data of olddom in a refresh) and
\* filled from the snapshot sdkdom.
\* [ret, handles, defs, pdoms, def, pdom, envId, errs]
prlsdkLoadDomainBuild(hs, ds, ps, oldpdom, fresh, sdkdom, b) ==
    LET uuid == hs[sdkdom].uuid
        hw == prlsdkAddDomainHardware(b)
        failed == b.fail # "none" /\ ~(b.fail \in HardwareSteps /\ hw = 0)
        s == [fail |-> IF failed THEN b.fail ELSE "none"]
        ds1 == IF s.fail = "allocDef" THEN ds ELSE NewDef(ds, uuid)
        def == IF s.fail = "allocDef" THEN 0 ELSE Len(ds1)
        ps1 == IF fresh /\ BuildDone(s, "allocPdom") THEN NewPdom(ps) ELSE ps
        pdom == IF fresh
                THEN (IF BuildDone(s, "allocPdom") THEN Len(ps1) ELSE 0)
                ELSE (IF BuildDone(s, "allocDef") THEN oldpdom ELSE 0)
        envId == EnvIdOf(uuid)
        home == IF BuildDone(s, "home") THEN "path"
                ELSE IF BuildDone(s, "homeAlloc") THEN "alloc"
                ELSE IF BuildDone(s, "homeSize") THEN "null"
                ELSE "keep"
        ps2 == IF pdom \in 1..Len(ps1)
               THEN [ps1 EXCEPT
                       ![pdom].id = IF BuildDone(s, "envId") THEN envId ELSE @,
                       ![pdom].home = IF home = "keep" THEN @ ELSE home]
               ELSE ps1
        ds2 == IF def # 0
               THEN [ds1 EXCEPT ![def].built =
                        IF b.fail # "none" THEN "partial" ELSE "complete"]
               ELSE ds1
        hs1 == IF failed /\ s.fail \in UnsetHandleSteps
               THEN PrlHandle_Free(hs, b.g) ELSE hs
    IN  [ret |-> IF failed THEN 0 - 1 ELSE 0,
         handles |-> hs1, defs |-> ds2, pdoms |-> ps2,
         def |-> def, pdom |-> pdom, envId |-> envId,
         errs |-> IF failed THEN <<ErrBuild(s.fail)>> ELSE <<>>]

\* a publication that, in a refresh, frees the old definitions but leaves
\* the object pointing at them
prlsdkLoadDomainPublish_KeepOldDef(st, os, ds, l, ok) ==
    IF l.olddom # 0
    THEN LET o == os[l.olddom]
         IN  [dom |-> l.olddom, domains |-> st,
              doms |-> [os EXCEPT ![l.olddom].privateData = l.pdom,
                                  ![l.olddom].privateDataFreeFunc = TRUE,
                                  ![l.olddom].persistent = 1],
              defs |-> virDomainDefFree(virDomainDefFree(ds, o.def), o.newDef)]
    ELSE IF ok
    THEN LET os1 == NewDom(os, l.def)
             dom == Len(os1)
         IN  [dom |-> dom, domains |-> st \cup {dom},
              doms |-> [os1 EXCEPT ![dom].privateData = l.pdom,
                                   ![dom].privateDataFreeFunc = TRUE,
                                   ![dom].persistent = 1],
              defs |-> ds]
    ELSE [dom |-> 0, domains |-> st, doms |-> os, defs |-> ds]

\* prlsdkLoadDomain, the publication: a refresh replaces the definition of
\* olddom in place; a fresh discovery adds def to the store, which hands
\* back a new locked object, or fails (ok = FALSE).  Then the private data
\* is attached.  [dom, domains, doms, defs]
prlsdkLoadDomainPublish(st, os, ds, l, ok) ==
    IF l.olddom # 0
    THEN LET o == os[l.olddom]
         IN  [dom |-> l.olddom, domains |-> st,
              doms |-> [os EXCEPT ![l.olddom].def = l.def,
                                  ![l.olddom].newDef = l.def,
                                  ![l.olddom].privateData = l.pdom,
                                  ![l.olddom].privateDataFreeFunc = TRUE,
                                  ![l.olddom].persistent = 1],
              defs |-> virDomainDefFree(virDomainDefFree(ds, o.def), o.newDef)]
    ELSE IF ok
    THEN LET os1 == NewDom(os, l.def)
             dom == Len(os1)
         IN  [dom |-> dom, domains |-> st \cup {dom},
              doms |-> [os1 EXCEPT ![dom].privateData = l.pdom,
                                   ![dom].privateDataFreeFunc = TRUE,
                                   ![dom].persistent = 1],
              defs |-> ds]
    ELSE [dom |-> 0, domains |-> st, doms |-> os, defs |-> ds]

\* prlsdkGetDomainState, given the outcome e of the state job and the
\* return codes of PrlResult_GetParamByIndex (gp) and PrlVmInfo_GetState
\* (gs): [handles, ret, errs]
prlsdkGetDomainState(hs, e, gp, gs) ==
    LET hs1 == NewHandle(hs, "job", 0)
        r == getJobResultHelper(hs1, Len(hs1), e)
    IN  IF r.result = PRL_INVALID_HANDLE
        THEN [handles |-> r.handles, ret |-> 0 - 1, errs |-> r.errs]
        ELSE IF PRL_FAILED(gp)
        THEN [handles |-> PrlHandle_Free(r.handles, r.result), ret |-> 0 - 1,
              errs |-> logPrlErrorHelper(gp, TRUE)]
        ELSE LET hs2 == NewHandle(r.handles, "vminfo", 0)
                 vmInfo == Len(hs2)
             IN  [handles |-> PrlHandle_Free(PrlHandle_Free(hs2, vmInfo), r.result),
                  ret |-> IF PRL_FAILED(gs) THEN 0 - 1 ELSE 0,
                  errs |-> IF PRL_FAILED(gs)
                           THEN logPrlErrorHelper(gs, TRUE) ELSE <<>>]

\* the outcomes of one prlsdkGetDomainState; a call that is not reached has
\* the outcome 0
StateEnvs(timeout) ==
    {[e |-> e, gp |-> 0, gs |-> 0] : e \in JobPaths(timeout)}
    \cup {[e |-> NoEnv, gp |-> c, gs |-> 0] : c \in CallCodes \ {0}}
    \cup {[e |-> NoEnv, gp |-> 0, gs |-> c] : c \in CallCodes \ {0}}

\* the run-states of the hypervisor (VIRTUAL_MACHINE_STATE)
VmStates ==
    {"VMS_STOPPED", "VMS_MOUNTED", "VMS_STARTING", "VMS_COMPACTING",
     "VMS_RESETTING", "VMS_PAUSING", "VMS_RECONNECTING", "VMS_RUNNING",
     "VMS_PAUSED", "VMS_SUSPENDED", "VMS_DELETING_STATE",
     "VMS_SUSPENDING_SYNC", "VMS_STOPPING", "VMS_SNAPSHOTING",
     "VMS_MIGRATING", "VMS_SUSPENDING", "VMS_RESTORING", "VMS_CONTINUING",
     "VMS_RESUMING", "VMS_UNKNOWN"}

\* the int that an assignment from a PRL_UINT32 yields
AsInt(u) == IF u >= 2 ^ (UintBits - 1) THEN u - 2 ^ UintBits ELSE u

\* prlsdkConvertDomainState with VMS_RESUMING sharing the case of
\* VMS_CONTINUING
prlsdkConvertDomainState_ResumingUnpaused(domainState, envId, id) ==
    LET to(st, rs, newid) ==
            [ret |-> 0, set |-> TRUE, state |-> st, reason |-> rs, id |-> newid]
        eid == AsInt(envId)
    IN  CASE domainState \in {"VMS_STOPPED", "VMS_MOUNTED"} ->
                 to("VIR_DOMAIN_SHUTOFF", "VIR_DOMAIN_SHUTOFF_SHUTDOWN", 0 - 1)
          [] domainState \in {"VMS_STARTING", "VMS_COMPACTING", "VMS_RESETTING",
                              "VMS_PAUSING", "VMS_RECONNECTING", "VMS_RUNNING"} ->
                 to("VIR_DOMAIN_RUNNING", "VIR_DOMAIN_RUNNING_BOOTED", eid)
          [] domainState = "VMS_PAUSED" ->
                 to("VIR_DOMAIN_PAUSED", "VIR_DOMAIN_PAUSED_USER", eid)
          [] domainState \in {"VMS_SUSPENDED", "VMS_DELETING_STATE",
                              "VMS_SUSPENDING_SYNC"} ->
                 to("VIR_DOMAIN_SHUTOFF", "VIR_DOMAIN_SHUTOFF_SAVED", 0 - 1)
          [] domainState = "VMS_STOPPING" ->
                 to("VIR_DOMAIN_SHUTDOWN", "VIR_DOMAIN_SHUTDOWN_USER", eid)
          [] domainState = "VMS_SNAPSHOTING" ->
                 to("VIR_DOMAIN_PAUSED", "VIR_DOMAIN_PAUSED_SNAPSHOT", eid)
          [] domainState = "VMS_MIGRATING" ->
                 to("VIR_DOMAIN_PAUSED", "VIR_DOMAIN_PAUSED_MIGRATION", eid)
          [] domainState = "VMS_SUSPENDING" ->
                 to("VIR_DOMAIN_PAUSED", "VIR_DOMAIN_PAUSED_SAVE", eid)
          [] domainState = "VMS_RESTORING" ->
                 to("VIR_DOMAIN_RUNNING", "VIR_DOMAIN_RUNNING_RESTORED", eid)
          [] domainState \in {"VMS_CONTINUING", "VMS_RESUMING"} ->
                 to("VIR_DOMAIN_RUNNING", "VIR_DOMAIN_RUNNING_UNPAUSED", eid)
          [] domainState = "VMS_UNKNOWN" ->
                 to("VIR_DOMAIN_NOSTATE", "VIR_DOMAIN_NOSTATE_UNKNOWN", id)
          [] OTHER ->
                 [ret |-> 0 - 1, set |-> FALSE, state |-> "", reason |-> "",
                  id |-> id]

\* prlsdkConvertDomainState with the default label sharing the case of
\* VMS_UNKNOWN
prlsdkConvertDomainState_DefaultNostate(domainState, envId, id) ==
    LET to(st, rs, newid) ==
            [ret |-> 0, set |-> TRUE, state |-> st, reason |-> rs, id |-> newid]
        eid == AsInt(envId)
    IN  CASE domainState \in {"VMS_STOPPED", "VMS_MOUNTED"} ->
                 to("VIR_DOMAIN_SHUTOFF", "VIR_DOMAIN_SHUTOFF_SHUTDOWN", 0 - 1)
          [] domainState \in {"VMS_STARTING", "VMS_COMPACTING", "VMS_RESETTING",
                              "VMS_PAUSING", "VMS_RECONNECTING", "VMS_RUNNING"} ->
                 to("VIR_DOMAIN_RUNNING", "VIR_DOMAIN_RUNNING_BOOTED", eid)
          [] domainState = "VMS_PAUSED" ->
                 to("VIR_DOMAIN_PAUSED", "VIR_DOMAIN_PAUSED_USER", eid)
          [] domainState \in {"VMS_SUSPENDED", "VMS_DELETING_STATE",
                              "VMS_SUSPENDING_SYNC"} ->
                 to("VIR_DOMAIN_SHUTOFF", "VIR_DOMAIN_SHUTOFF_SAVED", 0 - 1)
          [] domainState = "VMS_STOPPING" ->
                 to("VIR_DOMAIN_SHUTDOWN", "VIR_DOMAIN_SHUTDOWN_USER", eid)
          [] domainState = "VMS_SNAPSHOTING" ->
                 to("VIR_DOMAIN_PAUSED", "VIR_DOMAIN_PAUSED_SNAPSHOT", eid)
          [] domainState = "VMS_MIGRATING" ->
                 to("VIR_DOMAIN_PAUSED", "VIR_DOMAIN_PAUSED_MIGRATION", eid)
          [] domainState = "VMS_SUSPENDING" ->
                 to("VIR_DOMAIN_PAUSED", "VIR_DOMAIN_PAUSED_SAVE", eid)
          [] domainState = "VMS_RESTORING" ->
                 to("VIR_DOMAIN_RUNNING", "VIR_DOMAIN_RUNNING_RESTORED", eid)
          [] domainState = "VMS_CONTINUING" ->
                 to("VIR_DOMAIN_RUNNING", "VIR_DOMAIN_RUNNING_UNPAUSED", eid)
          [] domainState = "VMS_RESUMING" ->
                 to("VIR_DOMAIN_RUNNING", "VIR_DOMAIN_RUNNING_RESTORED", eid)
          [] OTHER ->
                 to("VIR_DOMAIN_NOSTATE", "VIR_DOMAIN_NOSTATE_UNKNOWN", id)

\* prlsdkConvertDomainState on a domain whose definition has the id `id`:
\* [ret, set, state, reason, id]; set says whether state and reason are
\* assigned
prlsdkConvertDomainState(domainState, envId, id) ==
    LET to(st, rs, newid) ==
            [ret |-> 0, set |-> TRUE, state |-> st, reason |-> rs, id |-> newid]
        eid == AsInt(envId)
    IN  CASE domainState \in {"VMS_STOPPED", "VMS_MOUNTED"} ->
                 to("VIR_DOMAIN_SHUTOFF", "VIR_DOMAIN_SHUTOFF_SHUTDOWN", 0 - 1)
          [] domainState \in {"VMS_STARTING", "VMS_COMPACTING", "VMS_RESETTING",
                              "VMS_PAUSING", "VMS_RECONNECTING", "VMS_RUNNING"} ->
                 to("VIR_DOMAIN_RUNNING", "VIR_DOMAIN_RUNNING_BOOTED", eid)
          [] domainState = "VMS_PAUSED" ->
                 to("VIR_DOMAIN_PAUSED", "VIR_DOMAIN_PAUSED_USER", eid)
          [] domainState \in {"VMS_SUSPENDED", "VMS_DELETING_STATE",
                              "VMS_SUSPENDING_SYNC"} ->
                 to("VIR_DOMAIN_SHUTOFF", "VIR_DOMAIN_SHUTOFF_SAVED", 0 - 1)
          [] domainState = "VMS_STOPPING" ->
                 to("VIR_DOMAIN_SHUTDOWN", "VIR_DOMAIN_SHUTDOWN_USER", eid)
          [] domainState = "VMS_SNAPSHOTING" ->
                 to("VIR_DOMAIN_PAUSED", "VIR_DOMAIN_PAUSED_SNAPSHOT", eid)
          [] domainState = "VMS_MIGRATING" ->
                 to("VIR_DOMAIN_PAUSED", "VIR_DOMAIN_PAUSED_MIGRATION", eid)
          [] domainState = "VMS_SUSPENDING" ->
                 to("VIR_DOMAIN_PAUSED", "VIR_DOMAIN_PAUSED_SAVE", eid)
          [] domainState = "VMS_RESTORING" ->
                 to("VIR_DOMAIN_RUNNING", "VIR_DOMAIN_RUNNING_RESTORED", eid)
          [] domainState = "VMS_CONTINUING" ->
                 to("VIR_DOMAIN_RUNNING", "VIR_DOMAIN_RUNNING_UNPAUSED", eid)
          [] domainState = "VMS_RESUMING" ->
                 to("VIR_DOMAIN_RUNNING", "VIR_DOMAIN_RUNNING_RESTORED", eid)
          [] domainState = "VMS_UNKNOWN" ->
                 to("VIR_DOMAIN_NOSTATE", "VIR_DOMAIN_NOSTATE_UNKNOWN", id)
          [] OTHER ->
                 [ret |-> 0 - 1, set |-> FALSE, state |-> "", reason |-> "",
                  id |-> id]

ErrUnknownState == <<"VIR_ERR_INTERNAL_ERROR", "Unknown domain state", 0>>

ErrUnknownAutostart == <<"VIR_ERR_INTERNAL_ERROR", "Unknown autostart mode", 0>>

\* a switch on the autostart option that takes an unknown value for manual
prlsdkLoadDomainAutostart_DefaultManual(autostart, old) ==
    CASE autostart = "PAO_VM_START_ON_LOAD" -> [ret |-> 0, autostart |-> 1]
      [] OTHER -> [ret |-> 0, autostart |-> 0]

\* prlsdkLoadDomain, the switch on the autostart option:
\* [ret, autostart]
prlsdkLoadDomainAutostart(autostart, old) ==
    CASE autostart = "PAO_VM_START_ON_LOAD" -> [ret |-> 0, autostart |-> 1]
      [] autostart = "PAO_VM_START_MANUAL" -> [ret |-> 0, autostart |-> 0]
      [] OTHER -> [ret |-> 0 - 1, autostart |-> old]

\* prlsdkLoadDomain, the error label: a freshly added object is removed
\* from the store, then def and pdom are freed.  g1 and g2 are what
\* pdom->sdkdom is read as by the two runs of prlsdkDomObjFreePrivate.
\* [handles, domains, doms, defs, pdoms]
prlsdkLoadDomainError(hs, st, os, ds, ps, l, g1, g2) ==
    LET rm == IF l.dom # 0 /\ l.olddom = 0
              THEN virDomainObjListRemove(hs, st, os, ds, ps, l.dom, g1)
              ELSE [handles |-> hs, domains |-> st, doms |-> os, defs |-> ds,
                    pdoms |-> ps]
        fp == prlsdkDomObjFreePrivate(rm.handles, rm.pdoms, l.pdom, g2)
    IN  [handles |-> fp.handles, domains |-> rm.domains, doms |-> rm.doms,
         defs |-> virDomainDefFree(rm.defs, l.def), pdoms |-> fp.pdoms]

---------------------------------------------------------------------------
(* Spec: one session of the driver.  The driver opens (prlsdkInit,         *)
(* prlsdkConnect, prlsdkLoadDomains), uses the store, and closes           *)
(* (prlsdkDisconnect, prlsdkDeinit).                                       *)

\* The order in which the driver calls the session functions.  An open
\* whose prlsdkInit or prlsdkConnect fails returns the error and calls
\* nothing more; a session that was connected is closed.
DriverNext(d, op, ret) ==
    CASE d = "start" /\ op = "prlsdkInit" ->
             IF ret = 0 THEN "inited" ELSE "end"
      [] d = "inited" /\ op = "prlsdkConnect" ->
             IF ret = 0 THEN "connected" ELSE "end"
      [] d = "connected" /\ op = "prlsdkLoadDomains" ->
             IF ret = 0 THEN "loaded" ELSE "closing"
      [] d \in {"loaded", "closing"} /\ op = "prlsdkDisconnect" -> "disconnected"
      [] d = "disconnected" /\ op = "prlsdkDeinit" -> "end"
      [] OTHER -> d

Returned(op, ret) == [op |-> op, ret |-> ret, n |-> last.n + 1]

Init ==
    /\ handles = <<>>
    /\ errs = <<>>
    /\ last = [op |-> "none", ret |-> 0, n |-> 0]
    /\ pending = PRL_INVALID_HANDLE
    /\ held = {}
    /\ InitMain

SdkInit ==
    /\ pc = "idle" /\ drv = "start"
    /\ \E ir \in Codes, mem \in BOOLEAN :
         LET r == prlsdkInit(lib, privconn, ir, mem)
         IN  /\ lib' = r.lib
             /\ privconn' = r.privconn
             /\ errs' = r.errs
             /\ last' = Returned("prlsdkInit", r.ret)
             /\ drv' = DriverNext(drv, "prlsdkInit", r.ret)
    /\ UNCHANGED <<handles, pc, cs, ld, nops>>
    /\ UNCHANGED heapVars /\ UNCHANGED jobVars /\ UNCHANGED bufVars

SdkDeinit ==
    /\ pc = "idle" /\ drv = "disconnected"
    /\ lib' = prlsdkDeinit(lib)
    /\ errs' = <<>>
    /\ last' = Returned("prlsdkDeinit", 0)
    /\ drv' = DriverNext(drv, "prlsdkDeinit", 0)
    /\ UNCHANGED <<handles, privconn, pc, cs, ld, nops>>
    /\ UNCHANGED heapVars /\ UNCHANGED jobVars /\ UNCHANGED bufVars

SdkConnect ==
    /\ pc = "idle" /\ drv = "inited"
    /\ \E cr \in Codes : \E e \in JobEnvs(privconn.jobTimeout) :
         LET r == prlsdkConnect(handles, privconn, cr, e)
         IN  /\ handles' = r.handles
             /\ privconn' = r.privconn
             /\ errs' = r.errs
             /\ last' = Returned("prlsdkConnect", r.ret)
             /\ drv' = DriverNext(drv, "prlsdkConnect", r.ret)
    /\ UNCHANGED <<lib, pc, cs, ld, nops>>
    /\ UNCHANGED heapVars /\ UNCHANGED jobVars /\ UNCHANGED bufVars

SdkDisconnect ==
    /\ pc = "idle" /\ drv \in {"loaded", "closing"}
    /\ \E e \in JobPaths(privconn.jobTimeout) :
         LET r == prlsdkDisconnect(handles, privconn, e)
         IN  /\ handles' = r.handles
             /\ errs' = r.errs
             /\ last' = Returned("prlsdkDisconnect", 0)
             /\ drv' = DriverNext(drv, "prlsdkDisconnect", 0)
    /\ UNCHANGED <<lib, privconn, pc, cs, ld, nops>>
    /\ UNCHANGED heapVars /\ UNCHANGED jobVars /\ UNCHANGED bufVars

---------------------------------------------------------------------------
(* prlsdkLoadDomain, step by step.  ld holds its arguments and locals:     *)
(* olddom, sdkdom, dom, def, pdom, envId; fail is the build step the       *)
(* environment failed, store0 the store as it was when the call began,     *)
(* ret the object returned.                                                *)

LoadDomainFrame(sdkdom, olddom) ==
    [fn |-> "prlsdkLoadDomain", olddom |-> olddom, sdkdom |-> sdkdom,
     dom |-> 0, def |-> 0, pdom |-> 0, envId |-> 0, autostart |-> "unset",
     fail |-> "none",
     store0 |-> [domains |-> domains, doms |-> doms, defs |-> defs,
                 pdoms |-> pdoms],
     ret |-> 0]

\* where prlsdkLoadDomain returns to
ReturnPoint ==
    CASE cs.fn = "prlsdkLoadDomains" -> "lds_after"
      [] cs.fn = "prlsdkAddDomain" -> "add_after"
      [] OTHER -> "refresh_after"

LoadDomainBuild ==
    /\ pc = "ld_build"
    /\ \E b \in BuildEnvs(handles, ld.olddom, IsCtOf(handles[ld.sdkdom].uuid)) :
         LET r == prlsdkLoadDomainBuild(handles, defs, pdoms,
                     IF ld.olddom # 0 THEN doms[ld.olddom].privateData ELSE 0,
                     ld.olddom = 0, ld.sdkdom, b)
         IN  /\ handles' = r.handles
             /\ defs' = r.defs
             /\ pdoms' = r.pdoms
             /\ errs' = errs \o r.errs
             /\ ld' = [ld EXCEPT !.def = r.def, !.pdom = r.pdom,
                                 !.envId = r.envId, !.fail = b.fail]
             /\ pc' = IF r.ret = 0 THEN "ld_publish" ELSE "ld_error"
    /\ UNCHANGED <<last, domains, doms, cs, nops>>
    /\ UNCHANGED sessVars /\ UNCHANGED jobVars /\ UNCHANGED bufVars

LoadDomainPublish ==
    /\ pc = "ld_publish"
    /\ \E ok \in (IF ld.olddom # 0 THEN {TRUE} ELSE BOOLEAN) :
         LET r == prlsdkLoadDomainPublish(domains, doms, defs, ld, ok)
         IN  /\ domains' = r.domains
             /\ doms' = r.doms
             /\ defs' = r.defs
             /\ ld' = [ld EXCEPT !.dom = r.dom]
             /\ errs' = IF r.dom = 0 THEN errs \o <<ErrOom>> ELSE errs
             /\ pc' = IF r.dom = 0 THEN "ld_error" ELSE "ld_state"
    /\ UNCHANGED <<handles, last, pdoms, cs, nops>>
    /\ UNCHANGED sessVars /\ UNCHANGED jobVars /\ UNCHANGED bufVars

\* the run-states the hypervisor reports for machine uuid at the n-th use of
\* the store: its state then, running or shut off, or a value outside
\* VIRTUAL_MACHINE_STATE
ReportedStates(uuid, n) ==
    {IF (uuid + n) % 2 = 1 THEN "VMS_RUNNING" ELSE "VMS_STOPPED",
     "VMS_OUT_OF_RANGE"}

LoadDomainState ==
    /\ pc = "ld_state"
    /\ \E v \in StateEnvs(privconn.jobTimeout) : 
       \E domainState \in ReportedStates(handles[ld.sdkdom].uuid, nops) :
         LET g == prlsdkGetDomainState(handles, v.e, v.gp, v.gs)
             c == prlsdkConvertDomainState(domainState, ld.envId,
                                           defs[doms[ld.dom].def].id)
         IN  /\ handles' = g.handles
             /\ IF g.ret < 0
                THEN /\ domainState = "VMS_OUT_OF_RANGE"
                     /\ errs' = errs \o g.errs
                     /\ pc' = "ld_error"
                     /\ UNCHANGED <<doms, defs>>
                ELSE IF c.ret < 0
                THEN /\ errs' = errs \o <<ErrUnknownState>>
                     /\ pc' = "ld_error"
                     /\ UNCHANGED <<doms, defs>>
                ELSE /\ errs' = errs
                     /\ pc' = "ld_autostart"
                     /\ doms' = [doms EXCEPT ![ld.dom].state = c.state,
                                             ![ld.dom].reason = c.reason]
                     /\ defs' = [defs EXCEPT ![doms[ld.dom].def].id = c.id]
    /\ UNCHANGED <<last, domains, pdoms, cs, ld, nops>>
    /\ UNCHANGED sessVars /\ UNCHANGED jobVars /\ UNCHANGED bufVars

\* the autostart options the hypervisor reports for machine uuid at the
\* n-th use of the store: its setting then, or a value the switch does not
\* know
AutostartOptions(uuid, n) ==
    {IF (uuid \div 2 + n) % 2 = 1 THEN "PAO_VM_START_ON_LOAD"
     ELSE "PAO_VM_START_MANUAL",
     "PAO_OUT_OF_RANGE"}

LoadDomainAutostart ==
    /\ pc = "ld_autostart"
    /\ \E ga \in CallCodes : 
       \E autostart \in AutostartOptions(handles[ld.sdkdom].uuid, nops) :
         LET a == prlsdkLoadDomainAutostart(autostart, doms[ld.dom].autostart)
         IN  IF PRL_FAILED(ga)
             THEN /\ autostart = "PAO_OUT_OF_RANGE"
                  /\ errs' = errs \o logPrlErrorHelper(ga, TRUE)
                  /\ pc' = "ld_error"
                  /\ UNCHANGED <<doms, ld>>
             ELSE /\ errs' = IF a.ret < 0 THEN errs \o <<ErrUnknownAutostart>>
                             ELSE errs
                  /\ pc' = IF a.ret < 0 THEN "ld_error" ELSE "ld_retain"
                  /\ doms' = [doms EXCEPT ![ld.dom].autostart = a.autostart]
                  /\ ld' = [ld EXCEPT !.autostart = autostart]
    /\ UNCHANGED <<handles, last, domains, defs, pdoms, cs, nops>>
    /\ UNCHANGED sessVars /\ UNCHANGED jobVars /\ UNCHANGED bufVars

\* if (!pdom->sdkdom) { PrlHandle_AddRef(sdkdom); pdom->sdkdom = sdkdom }
\* return dom
LoadDomainRetain ==
    /\ pc = "ld_retain"
    /\ IF pdoms[ld.pdom].sdkdom = PRL_INVALID_HANDLE
       THEN \E ar \in CallCodes :
              IF PRL_FAILED(ar)
              THEN /\ errs' = errs \o logPrlErrorHelper(ar, TRUE)
                   /\ pc' = "ld_error"
                   /\ UNCHANGED <<handles, pdoms, ld>>
              ELSE /\ handles' = PrlHandle_AddRef(handles, ld.sdkdom)
                   /\ pdoms' = [pdoms EXCEPT ![ld.pdom].sdkdom = ld.sdkdom]
                   /\ ld' = [ld EXCEPT !.ret = ld.dom]
                   /\ pc' = ReturnPoint
                   /\ UNCHANGED errs
       ELSE /\ ld' = [ld EXCEPT !.ret = ld.dom]
            /\ pc' = ReturnPoint
            /\ UNCHANGED <<handles, pdoms, errs>>
    /\ UNCHANGED <<last, domains, doms, defs, cs, nops>>
    /\ UNCHANGED sessVars /\ UNCHANGED jobVars /\ UNCHANGED bufVars

LoadDomainError ==
    /\ pc = "ld_error"
    /\ \E g1 \in (IF ld.dom # 0 /\ ld.olddom = 0
                  THEN ReadSdkdom(handles, pdoms, doms[ld.dom].privateData)
                  ELSE {PRL_INVALID_HANDLE}) :
         LET rm == prlsdkLoadDomainError(handles, domains, doms, defs, pdoms,
                                         [ld EXCEPT !.pdom = 0], g1,
                                         PRL_INVALID_HANDLE)
         IN  \E g2 \in ReadSdkdom(rm.handles, rm.pdoms, ld.pdom) :
               LET r == prlsdkLoadDomainError(handles, domains, doms, defs,
                                              pdoms, ld, g1, g2)
               IN  /\ handles' = r.handles
                   /\ domains' = r.domains
                   /\ doms' = r.doms
                   /\ defs' = r.defs
                   /\ pdoms' = r.pdoms
    /\ ld' = [ld EXCEPT !.ret = 0]
    /\ pc' = ReturnPoint
    /\ UNCHANGED <<errs, last, cs, nops>>
    /\ UNCHANGED sessVars /\ UNCHANGED jobVars /\ UNCHANGED bufVars

---------------------------------------------------------------------------
(* prlsdkLoadDomains.  cs holds its locals: job, result, sdkdom,           *)
(* paramsCount, i.                                                         *)

\* the error label of prlsdkLoadDomains
prlsdkLoadDomainsError(hs, c) ==
    PrlHandle_Free(PrlHandle_Free(hs, c.result), c.job)

\* the i-th (from 0) virtual machine of the hypervisor's list
ListedUuid(i) == i + 1

\* job = PrlSrv_GetVmListEx(); result = getJobResult(job);
\* PrlResult_GetParamsCount(result, &paramsCount)
LoadDomainsBegin ==
    /\ pc = "idle" /\ drv = "connected"
    /\ \E e \in JobEnvs(privconn.jobTimeout) : \E gc \in Codes :
       \E paramsCount \in 0..MaxDomains :
         LET hs1 == NewHandle(handles, "job", 0)
             job == Len(hs1)
             r == getJobResultHelper(hs1, job, e)
             c == [fn |-> "prlsdkLoadDomains", job |-> job, result |-> r.result,
                   sdkdom |-> PRL_INVALID_HANDLE, unset |-> TRUE,
                   paramsCount |-> paramsCount, i |-> 0]
         IN  IF r.result = PRL_INVALID_HANDLE
             THEN /\ gc = 0 /\ paramsCount = 0
                  /\ handles' = r.handles
                  /\ errs' = r.errs
                  /\ last' = Returned("prlsdkLoadDomains", 0 - 1)
                  /\ drv' = DriverNext(drv, "prlsdkLoadDomains", 0 - 1)
                  /\ UNCHANGED <<pc, cs>>
             ELSE IF PRL_FAILED(gc)
             THEN /\ paramsCount = 0
                  /\ handles' = prlsdkLoadDomainsError(r.handles, c)
                  /\ errs' = logPrlErrorHelper(gc, TRUE)
                  /\ last' = Returned("prlsdkLoadDomains", 0 - 1)
                  /\ drv' = DriverNext(drv, "prlsdkLoadDomains", 0 - 1)
                  /\ UNCHANGED <<pc, cs>>
             ELSE /\ handles' = r.handles
                  /\ errs' = <<>>
                  /\ cs' = c
                  /\ pc' = "lds_loop"
                  /\ UNCHANGED <<last, drv>>
    /\ UNCHANGED <<lib, privconn, ld, nops>>
    /\ UNCHANGED heapVars /\ UNCHANGED jobVars /\ UNCHANGED bufVars

\* the loop head and PrlResult_GetParamByIndex(result, i, &sdkdom); sdkdom
\* is not initialised before the first fetch
LoadDomainsFetch ==
    /\ pc = "lds_loop"
    /\ IF cs.i >= cs.paramsCount
       THEN /\ handles' = PrlHandle_Free(handles, cs.result)
            /\ last' = Returned("prlsdkLoadDomains", 0)
            /\ drv' = DriverNext(drv, "prlsdkLoadDomains", 0)
            /\ pc' = "idle"
            /\ cs' = NoFrame
            /\ UNCHANGED <<errs, ld>>
       ELSE \E gp \in CallCodes :
              IF PRL_FAILED(gp)
              THEN \E sdkdom \in (IF cs.unset THEN AnyHandle(handles)
                                  ELSE {cs.sdkdom}) :
                     /\ handles' = prlsdkLoadDomainsError(
                                       PrlHandle_Free(handles, sdkdom), cs)
                     /\ errs' = errs \o logPrlErrorHelper(gp, TRUE)
                     /\ last' = Returned("prlsdkLoadDomains", 0 - 1)
                     /\ drv' = DriverNext(drv, "prlsdkLoadDomains", 0 - 1)
                     /\ pc' = "idle"
                     /\ cs' = NoFrame
                     /\ UNCHANGED ld
              ELSE /\ handles' = NewHandle(handles, "vm", ListedUuid(cs.i))
                   /\ cs' = [cs EXCEPT !.sdkdom = Len(handles'), !.unset = FALSE]
                   /\ ld' = LoadDomainFrame(Len(handles'), 0)
                   /\ pc' = "ld_build"
                   /\ UNCHANGED <<errs, last, drv>>
    /\ UNCHANGED <<lib, privconn, nops>>
    /\ UNCHANGED heapVars /\ UNCHANGED jobVars /\ UNCHANGED bufVars

\* a loop body of prlsdkLoadDomains that does not unlock the object it was
\* returned
LoadDomainsAfter_NoUnlock ==
    /\ pc = "lds_after"
    /\ IF ld.ret = 0
       THEN /\ handles' = prlsdkLoadDomainsError(
                              PrlHandle_Free(handles, cs.sdkdom), cs)
            /\ last' = Returned("prlsdkLoadDomains", 0 - 1)
            /\ drv' = DriverNext(drv, "prlsdkLoadDomains", 0 - 1)
            /\ pc' = "idle"
            /\ cs' = NoFrame
       ELSE /\ handles' = PrlHandle_Free(handles, cs.sdkdom)
            /\ cs' = [cs EXCEPT !.i = @ + 1]
            /\ pc' = "lds_loop"
            /\ UNCHANGED <<last, drv>>
    /\ ld' = NoFrame
    /\ UNCHANGED <<errs, lib, privconn, domains, doms, defs, pdoms, nops>>
    /\ UNCHANGED jobVars /\ UNCHANGED bufVars

\* PrlHandle_Free(sdkdom); if (!dom) goto error; else virObjectUnlock(dom)
LoadDomainsAfter ==
    /\ pc = "lds_after"
    /\ IF ld.ret = 0
       THEN /\ handles' = prlsdkLoadDomainsError(
                              PrlHandle_Free(handles, cs.sdkdom), cs)
            /\ last' = Returned("prlsdkLoadDomains", 0 - 1)
            /\ drv' = DriverNext(drv, "prlsdkLoadDomains", 0 - 1)
            /\ pc' = "idle"
            /\ cs' = NoFrame
            /\ UNCHANGED doms
       ELSE /\ handles' = PrlHandle_Free(handles, cs.sdkdom)
            /\ doms' = [doms EXCEPT ![ld.ret].locked = FALSE]
            /\ cs' = [cs EXCEPT !.i = @ + 1]
            /\ pc' = "lds_loop"
            /\ UNCHANGED <<last, drv>>
    /\ ld' = NoFrame
    /\ UNCHANGED <<errs, lib, privconn, domains, defs, pdoms, nops>>
    /\ UNCHANGED jobVars /\ UNCHANGED bufVars

---------------------------------------------------------------------------
(* prlsdkAddDomain *)

ErrNoDomain == <<"VIR_ERR_NO_DOMAIN", "no domain with matching uuid", 0>>

\* a prlsdkSdkDomainLookup that returns without its cleanup when the
\* snapshot cannot be taken out of the result
prlsdkSdkDomainLookup_LeakResult(hs, uuid, e, gp) ==
    LET hs1 == NewHandle(hs, "job", 0)
        r == getJobResultHelper(hs1, Len(hs1), e)
    IN  IF r.result = PRL_INVALID_HANDLE
        THEN [handles |-> PrlHandle_Free(r.handles, r.result),
              sdkdom |-> PRL_INVALID_HANDLE, ret |-> 0 - 1, errs |-> r.errs]
        ELSE IF PRL_FAILED(gp)
        THEN [handles |-> r.handles,
              sdkdom |-> PRL_INVALID_HANDLE, ret |-> 0 - 1,
              errs |-> logPrlErrorHelper(gp, TRUE)]
        ELSE LET hs2 == NewHandle(r.handles, "vm", uuid)
             IN  [handles |-> PrlHandle_Free(hs2, r.result),
                  sdkdom |-> Len(hs2), ret |-> 0, errs |-> <<>>]

\* prlsdkSdkDomainLookup for the virtual machine uuid, given the outcome e
\* of the job and the return code gp of PrlResult_GetParamByIndex:
\* [handles, sdkdom, ret, errs]
prlsdkSdkDomainLookup(hs, uuid, e, gp) ==
    LET hs1 == NewHandle(hs, "job", 0)
        r == getJobResultHelper(hs1, Len(hs1), e)
    IN  IF r.result = PRL_INVALID_HANDLE
        THEN [handles |-> PrlHandle_Free(r.handles, r.result),
              sdkdom |-> PRL_INVALID_HANDLE, ret |-> 0 - 1, errs |-> r.errs]
        ELSE IF PRL_FAILED(gp)
        THEN [handles |-> PrlHandle_Free(r.handles, r.result),
              sdkdom |-> PRL_INVALID_HANDLE, ret |-> 0 - 1,
              errs |-> logPrlErrorHelper(gp, TRUE)]
        ELSE LET hs2 == NewHandle(r.handles, "vm", uuid)
             IN  [handles |-> PrlHandle_Free(hs2, r.result),
                  sdkdom |-> Len(hs2), ret |-> 0, errs |-> <<>>]

\* prlsdkSdkDomainLookupByUUID: [handles, sdkdom, errs]
prlsdkSdkDomainLookupByUUID(hs, uuid, e, gp) ==
    LET r == prlsdkSdkDomainLookup(hs, uuid, e, gp)
    IN  IF r.ret < 0
        THEN [handles |-> r.handles, sdkdom |-> PRL_INVALID_HANDLE,
              errs |-> r.errs \o <<ErrNoDomain>>]
        ELSE [handles |-> r.handles, sdkdom |-> r.sdkdom, errs |-> r.errs]

\* the outcomes of one lookup; a call that is not reached has the outcome 0
LookupEnvs(timeout) ==
    {[e |-> e, gp |-> 0] : e \in JobPaths(timeout)}
    \cup {[e |-> NoEnv, gp |-> c] : c \in CallCodes \ {0}}

\* a prlsdkAddDomain that asks the hypervisor for the machine before it
\* looks in the store
AddDomainBegin_LookupFirst ==
    /\ pc = "idle" /\ drv = "loaded" /\ nops < MaxOps
    /\ nops' = nops + 1
    /\ \E uuid \in 1..MaxDomains :
         LET dom == virDomainObjListFindByUUID(domains, doms, defs, uuid)
             r == prlsdkSdkDomainLookupByUUID(handles, uuid, NoEnv, 0)
         IN  /\ handles' = IF dom # 0 THEN PrlHandle_Free(r.handles, r.sdkdom)
                           ELSE r.handles
             /\ errs' = r.errs
             /\ IF dom # 0
                THEN /\ doms' = [doms EXCEPT ![dom].locked = TRUE]
                     /\ last' = Returned("prlsdkAddDomain", dom)
                     /\ pc' = "add_ret"
                     /\ UNCHANGED <<cs, ld>>
                ELSE /\ cs' = [fn |-> "prlsdkAddDomain", sdkdom |-> r.sdkdom]
                     /\ ld' = LoadDomainFrame(r.sdkdom, 0)
                     /\ pc' = "ld_build"
                     /\ UNCHANGED <<doms, last>>
    /\ UNCHANGED <<domains, defs, pdoms>>
    /\ UNCHANGED sessVars /\ UNCHANGED jobVars /\ UNCHANGED bufVars

\* dom = virDomainObjListFindByUUID(); if (dom) return dom;
\* sdkdom = prlsdkSdkDomainLookupByUUID(); if (invalid) return NULL;
\* dom = prlsdkLoadDomain(privconn, sdkdom, NULL)
AddDomainBegin ==
    /\ pc = "idle" /\ drv = "loaded" /\ nops < MaxOps
    /\ nops' = nops + 1
    /\ \E uuid \in 1..MaxDomains :
         LET dom == virDomainObjListFindByUUID(domains, doms, defs, uuid)
         IN  IF dom # 0
             THEN /\ doms' = [doms EXCEPT ![dom].locked = TRUE]
                  /\ errs' = <<>>
                  /\ last' = Returned("prlsdkAddDomain", dom)
                  /\ pc' = "add_ret"
                  /\ UNCHANGED <<handles, cs, ld>>
             ELSE \E v \in LookupEnvs(privconn.jobTimeout) :
                    LET r == prlsdkSdkDomainLookupByUUID(handles, uuid, v.e, v.gp)
                    IN  /\ handles' = r.handles
                        /\ errs' = r.errs
                        /\ UNCHANGED doms
                        /\ IF r.sdkdom = PRL_INVALID_HANDLE
                           THEN /\ last' = Returned("prlsdkAddDomain", 0)
                                /\ UNCHANGED <<pc, cs, ld>>
                           ELSE /\ cs' = [fn |-> "prlsdkAddDomain",
                                          sdkdom |-> r.sdkdom]
                                /\ ld' = LoadDomainFrame(r.sdkdom, 0)
                                /\ pc' = "ld_build"
                                /\ UNCHANGED last
    /\ UNCHANGED <<domains, defs, pdoms>>
    /\ UNCHANGED sessVars /\ UNCHANGED jobVars /\ UNCHANGED bufVars

\* PrlHandle_Free(sdkdom); return dom
AddDomainAfter ==
    /\ pc = "add_after"
    /\ handles' = PrlHandle_Free(handles, cs.sdkdom)
    /\ last' = Returned("prlsdkAddDomain", ld.ret)
    /\ pc' = IF ld.ret # 0 THEN "add_ret" ELSE "idle"
    /\ cs' = NoFrame
    /\ ld' = NoFrame
    /\ UNCHANGED <<errs, nops>>
    /\ UNCHANGED heapVars /\ UNCHANGED sessVars /\ UNCHANGED jobVars /\ UNCHANGED bufVars

\* the caller of prlsdkAddDomain unlocks the object it was given
AddDomainUnlock ==
    /\ pc = "add_ret"
    /\ doms' = [doms EXCEPT ![last.ret].locked = FALSE]
    /\ pc' = "idle"
    /\ UNCHANGED <<handles, errs, last, domains, defs, pdoms, cs, ld, nops>>
    /\ UNCHANGED sessVars /\ UNCHANGED jobVars /\ UNCHANGED bufVars

---------------------------------------------------------------------------
(* A refresh: a caller that holds a domain of the store, locked, hands it  *)
(* to prlsdkLoadDomain as olddom together with the snapshot handle         *)
(* retained in its private data.                                           *)

RefreshStart ==
    /\ pc = "idle" /\ drv = "loaded"
    /\ nops' = nops + 1
    /\ \E d \in domains :
         /\ defs[doms[d].def].frees = 0
         /\ pdoms[doms[d].privateData].frees = 0
         /\ Live(handles, pdoms[doms[d].privateData].sdkdom)
         /\ doms' = [doms EXCEPT ![d].locked = TRUE]
         /\ cs' = [fn |-> "refresh", sdkdom |-> pdoms[doms[d].privateData].sdkdom]
         /\ ld' = [LoadDomainFrame(pdoms[doms[d].privateData].sdkdom, d)
                     EXCEPT !.store0.doms = doms']
    /\ errs' = <<>>
    /\ pc' = "ld_build"
    /\ UNCHANGED <<handles, last, domains, defs, pdoms>>
    /\ UNCHANGED sessVars /\ UNCHANGED jobVars /\ UNCHANGED bufVars

\* a refresh, as one of the MaxOps uses of the store
RefreshBegin ==
    /\ nops < MaxOps
    /\ RefreshStart

RefreshAfter ==
    /\ pc = "refresh_after"
    /\ doms' = [doms EXCEPT ![ld.olddom].locked = FALSE]
    /\ last' = Returned("refresh", ld.ret)
    /\ pc' = "idle"
    /\ cs' = NoFrame
    /\ ld' = NoFrame
    /\ UNCHANGED <<handles, errs, domains, defs, pdoms, nops>>
    /\ UNCHANGED sessVars /\ UNCHANGED jobVars /\ UNCHANGED bufVars

---------------------------------------------------------------------------

Next ==
    \/ SdkInit \/ SdkConnect \/ SdkDisconnect \/ SdkDeinit
    \/ LoadDomainsBegin \/ LoadDomainsFetch \/ LoadDomainsAfter
    \/ AddDomainBegin \/ AddDomainAfter \/ AddDomainUnlock
    \/ RefreshBegin \/ RefreshAfter
    \/ LoadDomainBuild \/ LoadDomainPublish \/ LoadDomainState
    \/ LoadDomainAutostart \/ LoadDomainRetain \/ LoadDomainError

Spec == Init /\ [][Next]_vars

---------------------------------------------------------------------------
(* SpecRefresh: a session whose uses of the store are refreshes, so that   *)
(* an object can be refreshed more than once.                              *)

\* most refreshes in a session
MaxRefreshes == 2

\* a refresh, as one of MaxRefreshes
RefreshAgain ==
    /\ nops < MaxRefreshes
    /\ RefreshStart

NextRefresh ==
    \/ SdkInit \/ SdkConnect \/ SdkDisconnect \/ SdkDeinit
    \/ LoadDomainsBegin \/ LoadDomainsFetch \/ LoadDomainsAfter
    \/ RefreshAgain \/ RefreshAfter
    \/ LoadDomainBuild \/ LoadDomainPublish \/ LoadDomainState
    \/ LoadDomainAutostart \/ LoadDomainRetain \/ LoadDomainError

SpecRefresh == Init /\ [][NextRefresh]_vars

---------------------------------------------------------------------------
(* prlsdkConvertDomainState alone: calls on one domain object, starting
   from the object prlsdkLoadDomain has just made *)

\* the instance ids PrlVm_GetEnvId can report: small ones and the largest
EnvIds == {0, 42, UINT_MAX}

\* the values PrlVmInfo_GetState can hand over: the known ones and one the
\* switch has no case for
DomainStates == VmStates \cup {"VMS_OUT_OF_RANGE"}

\* state, reason and def->id of the domain object
DomFields(os, ds, dom) ==
    [state |-> os[dom].state, reason |-> os[dom].reason, id |-> ds[os[dom].def].id]

InitConvert ==
    /\ handles = <<>>
    /\ errs = <<>>
    /\ last = NoCall
    /\ pending = PRL_INVALID_HANDLE
    /\ held = {}
    /\ drv = "start"
    /\ lib = [inits |-> 0, deinits |-> 0]
    /\ privconn = [server |-> PRL_INVALID_HANDLE, jobTimeout |-> 0]
    /\ defs = [NewDef(<<>>, 1) EXCEPT ![1].built = "complete"]
    /\ doms = NewDom(<<>>, 1)
    /\ domains = {1}
    /\ pdoms = <<>>
    /\ pc = "idle"
    /\ cs = NoFrame
    /\ ld = NoFrame
    /\ nops = 0
    /\ heap = <<>>
    /\ buffer = NoBuffer

ConvertDomainState ==
    /\ pc = "idle"
    /\ \E domainState \in DomainStates, envId \in EnvIds :
         LET dom == 1
             c == prlsdkConvertDomainState(domainState, envId,
                                           defs[doms[dom].def].id)
         IN  /\ doms' = IF c.set
                        THEN [doms EXCEPT ![dom].state = c.state,
                                          ![dom].reason = c.reason]
                        ELSE doms
             /\ defs' = [defs EXCEPT ![doms[dom].def].id = c.id]
             /\ errs' = IF c.ret < 0 THEN <<ErrUnknownState>> ELSE <<>>
             /\ last' = [op |-> "prlsdkConvertDomainState",
                         domainState |-> domainState, envId |-> envId,
                         ret |-> c.ret, before |-> DomFields(doms, defs, dom)]
    /\ UNCHANGED <<handles, domains, pdoms, pc, cs, ld, nops>>
    /\ UNCHANGED sessVars /\ UNCHANGED jobVars /\ UNCHANGED bufVars

NextConvert == ConvertDomainState

SpecConvert == InitConvert /\ [][NextConvert]_vars

---------------------------------------------------------------------------
(* The UUID codec: prlsdkUUIDFormat and prlsdkUUIDParse.  A C string is the
   sequence of its characters before the terminating NUL; a buffer is a
   sequence of characters, buffer[i + 1] being the C element i *)

\* number of bytes of a UUID
VIR_UUID_BUFLEN == 16

\* size of a buffer for the canonical text: 32 digits, 4 hyphens, NUL
VIR_UUID_STRING_BUFLEN == 2 * VIR_UUID_BUFLEN + 4 + 1

NUL == "NUL"

HexDigits ==
    <<"0", "1", "2", "3", "4", "5", "6", "7",
      "8", "9", "a", "b", "c", "d", "e", "f">>

IsHex(c) == \E n \in 1..Len(HexDigits) : HexDigits[n] = c

HexVal(c) == (CHOOSE n \in 1..Len(HexDigits) : HexDigits[n] = c) - 1

\* the bytes after which the canonical text has a hyphen
HyphenAfter == {4, 6, 8, 10}

RECURSIVE virUUIDFormatFrom(_, _)
virUUIDFormatFrom(uuid, i) ==
    IF i > Len(uuid) THEN <<>>
    ELSE <<HexDigits[(uuid[i] \div Len(HexDigits)) + 1],
           HexDigits[(uuid[i] % Len(HexDigits)) + 1]>>
         \o (IF i \in HyphenAfter THEN <<"-">> ELSE <<>>)
         \o virUUIDFormatFrom(uuid, i + 1)

\* virUUIDFormat: the canonical text of a UUID
virUUIDFormat(uuid) == virUUIDFormatFrom(uuid, 1)

RECURSIVE virUUIDParseFrom(_, _)
virUUIDParseFrom(str, i) ==
    IF i > VIR_UUID_BUFLEN THEN <<>>
    ELSE LET pos == 2 * (i - 1) + Cardinality({h \in HyphenAfter : h < i}) + 1
         IN  <<HexVal(str[pos]) * Len(HexDigits) + HexVal(str[pos + 1])>>
             \o virUUIDParseFrom(str, i + 1)

\* virUUIDParse: [ret, uuid]; succeeds on a canonical text only
virUUIDParse(str) ==
    LET hyphens == {2 * h + Cardinality({g \in HyphenAfter : g < h}) + 1 :
                        h \in HyphenAfter}
        canonical ==
            /\ Len(str) = VIR_UUID_STRING_BUFLEN - 1
            /\ \A p \in 1..Len(str) :
                   IF p \in hyphens THEN str[p] = "-" ELSE IsHex(str[p])
    IN  IF canonical THEN [ret |-> 0, uuid |-> virUUIDParseFrom(str, 1)]
        ELSE [ret |-> 0 - 1, uuid |-> <<>>]

\* the string a buffer holds: its characters before the first NUL
CString(buf) ==
    LET nuls == {i \in 1..Len(buf) : buf[i] = NUL}
    IN  IF nuls = {} THEN buf
        ELSE SubSeq(buf, 1, (CHOOSE i \in nuls : \A j \in nuls : i <= j) - 1)

\* the buffer after a C string was written at element `at`
WriteString(buf, at, str) ==
    [i \in 1..Len(buf) |->
        IF i \in (at + 1)..(at + Len(str)) THEN str[i - at]
        ELSE IF i = at + Len(str) + 1 THEN NUL
        ELSE buf[i]]

\* prlsdkUUIDFormat into a buffer of VIR_UUID_STRING_BUFLEN + 2 characters
\* that nothing was written to yet: the string then in the buffer
prlsdkUUIDFormat(uuid) ==
    LET uuidstr == [i \in 1..(VIR_UUID_STRING_BUFLEN + 2) |-> "?"]
        b1 == WriteString(uuidstr, 1, virUUIDFormat(uuid))
        b2 == [b1 EXCEPT ![0 + 1] = "{",
                         ![VIR_UUID_STRING_BUFLEN + 1] = "}",
                         ![VIR_UUID_STRING_BUFLEN + 1 + 1] = NUL]
    IN  CString(b2)

ErrMalformedUuid ==
    <<"VIR_ERR_INTERNAL_ERROR", "UUID in config file malformed", 0>>

\* prlsdkUUIDParse that hands the string to virUUIDParse with its last
\* character still on it
prlsdkUUIDParse_KeepLast(uuidstr, garbage) ==
    IF Len(uuidstr) = 0
    THEN {[ret |-> r.ret, uuid |-> r.uuid, outside |-> TRUE,
           errs |-> IF r.ret < 0 THEN <<ErrMalformedUuid>> ELSE <<>>] :
              r \in {virUUIDParse(g) : g \in garbage}}
    ELSE LET r == virUUIDParse(SubSeq(uuidstr, 2, Len(uuidstr)))
         IN  {[ret |-> r.ret, uuid |-> r.uuid, outside |-> FALSE,
               errs |-> IF r.ret < 0 THEN <<ErrMalformedUuid>> ELSE <<>>]}

\* prlsdkUUIDParse of a non-NULL string into a non-NULL uuid, VIR_STRDUP
\* succeeding: the set of outcomes [ret, uuid, outside, errs].  The copy has
\* its last character cut and is parsed from its second character on.  For
\* the empty string the cut writes before the copy and the parse reads
\* behind it (outside), where any of the strings `garbage` may be found
prlsdkUUIDParse(uuidstr, garbage) ==
    IF Len(uuidstr) = 0
    THEN {[ret |-> r.ret, uuid |-> r.uuid, outside |-> TRUE,
           errs |-> IF r.ret < 0 THEN <<ErrMalformedUuid>> ELSE <<>>] :
              r \in {virUUIDParse(g) : g \in garbage}}
    ELSE LET r == virUUIDParse(SubSeq(uuidstr, 2, Len(uuidstr) - 1))
         IN  {[ret |-> r.ret, uuid |-> r.uuid, outside |-> FALSE,
               errs |-> IF r.ret < 0 THEN <<ErrMalformedUuid>> ELSE <<>>]}

\* the UUIDs the codec is applied to: byte i is first + (i - 1) * step
FirstBytes == {0, 1, 9, 10, 15, 16, 127, 128, 171, 255}

ByteSteps == {0, 1, 17, 255}

Uuids ==
    {[i \in 1..VIR_UUID_BUFLEN |->
         (first + (i - 1) * step) % (Len(HexDigits) * Len(HexDigits))] :
        first \in FirstBytes, step \in ByteSteps}

\* the strings PrlVmCfg_GetUuid may have put into the buffer for a machine
\* whose wire UUID is w: w itself, w without a bracket, with another
\* character for a bracket or for a digit, and the empty string
WireStrings(w) ==
    {w, SubSeq(w, 2, Len(w)), SubSeq(w, 1, Len(w) - 1),
     [w EXCEPT ![1] = "("], [w EXCEPT ![2] = "g"], <<>>}

\* what the memory behind an empty copy may hold: nothing, or a UUID text
Garbage == {<<>>, virUUIDFormat([i \in 1..VIR_UUID_BUFLEN |-> 0])}

InitCodec == InitJob

UUIDFormat ==
    /\ pc = "idle"
    /\ \E uuid \in Uuids :
         last' = [op |-> "prlsdkUUIDFormat", uuid |-> uuid,
                  uuidstr |-> prlsdkUUIDFormat(uuid)]
    /\ errs' = <<>>
    /\ UNCHANGED <<handles>> /\ UNCHANGED jobVars /\ UNCHANGED mainVars

\* prlsdkUUIDParse on what the hypervisor hands back for the UUID that was
\* formatted last
UUIDParse ==
    /\ pc = "idle"
    /\ last.op = "prlsdkUUIDFormat"
    /\ \E uuidstr \in WireStrings(last.uuidstr) :
       \E o \in prlsdkUUIDParse(uuidstr, Garbage) :
         /\ last' = [op |-> "prlsdkUUIDParse", formatted |-> last.uuid,
                     uuidstr |-> uuidstr, ret |-> o.ret, uuid |-> o.uuid,
                     outside |-> o.outside]
         /\ errs' = o.errs
    /\ UNCHANGED <<handles>> /\ UNCHANGED jobVars /\ UNCHANGED mainVars

\* the calls of prlsdkGetDomainIds that can fail: the size query, the
\* allocation of the name, the read of the name, the read of the UUID
DomainIdsSteps == {"none", "size", "VIR_ALLOC_N", "name", "uuid"}

\* what uuidstr may hold when nothing was written to it: nothing, the wire
\* text an earlier call left on the stack, or something else
UnfilledStrings ==
    {<<>>, <<"{">> \o virUUIDFormat([i \in 1..VIR_UUID_BUFLEN |-> 0]) \o <<"}">>,
     <<"?", "?">>}

\* prlsdkGetDomainIds for a machine whose wire UUID is w, when the call
\* `fail` returns the failure `code`: the set of outcomes [ret, name, uuid,
\* parsed, allocs, frees, errs].  name is what *name is left as, parsed the
\* buffer prlsdkUUIDParse was given ("none" when it was not called), allocs
\* and frees count the allocations and the frees of the name buffer
prlsdkGetDomainIds(w, fail, code) ==
    IF fail = "size"
    THEN {[ret |-> 0 - 1, name |-> "NULL", uuid |-> <<>>, parsed |-> "none",
           allocs |-> 0, frees |-> 0, errs |-> logPrlErrorHelper(code, TRUE)]}
    ELSE IF fail = "VIR_ALLOC_N"
    THEN {[ret |-> 0 - 1, name |-> "NULL", uuid |-> <<>>, parsed |-> "none",
           allocs |-> 0, frees |-> 0, errs |-> <<ErrOom>>]}
    ELSE LET name == IF fail = "name" THEN "zeroed" ELSE "name"
             filled == IF fail = "uuid" THEN UnfilledStrings ELSE {w}
         IN  {IF o.ret < 0
              THEN [ret |-> 0 - 1, name |-> "NULL", uuid |-> <<>>,
                    parsed |-> IF fail = "uuid" THEN "unfilled" ELSE "filled",
                    allocs |-> 1, frees |-> 1, errs |-> o.errs]
              ELSE [ret |-> 0, name |-> name, uuid |-> o.uuid,
                    parsed |-> IF fail = "uuid" THEN "unfilled" ELSE "filled",
                    allocs |-> 1, frees |-> 0, errs |-> o.errs] :
              o \in UNION {prlsdkUUIDParse(uuidstr, Garbage) :
                             uuidstr \in filled}}

\* prlsdkGetDomainIds on the machine whose UUID was formatted last
GetDomainIds ==
    /\ pc = "idle"
    /\ last.op = "prlsdkUUIDFormat"
    /\ \E fail \in DomainIdsSteps :
       \E code \in (IF fail = "none" THEN {0} ELSE CallCodes \ {0}) :
       \E o \in prlsdkGetDomainIds(last.uuidstr, fail, code) :
         /\ last' = [op |-> "prlsdkGetDomainIds", formatted |-> last.uuid,
                     fail |-> fail, ret |-> o.ret, name |-> o.name,
                     uuid |-> o.uuid, parsed |-> o.parsed,
                     allocs |-> o.allocs, frees |-> o.frees]
         /\ errs' = o.errs
    /\ UNCHANGED <<handles>> /\ UNCHANGED jobVars /\ UNCHANGED mainVars

NextCodec == UUIDFormat \/ UUIDParse \/ GetDomainIds

SpecCodec == InitCodec /\ [][NextCodec]_vars

---------------------------------------------------------------------------
(* The extractors prlsdkLoadDomain fills a definition with, each applied to
   a definition and private data that hold nothing yet *)

\* largest number of CPUs of the host and of a virtual machine
MaxCpus == 3

Min(a, b) == IF a < b THEN a ELSE b

Range(seq) == {seq[i] : i \in 1..Len(seq)}

\* a bitmap is [size, bits]; NULL is no bitmap
virBitmapNew(size) == [size |-> size, bits |-> {}]

virBitmapSetAll(bitmap) == [bitmap EXCEPT !.bits = 0..(bitmap.size - 1)]

\* virBitmapParse of a CPU list, given as the sequence of the CPUs it
\* names, into a bitmap of bitmapSize bits: [ret, bitmap]
virBitmapParse(str, bitmapSize) ==
    IF \A i \in 1..Len(str) : str[i] < bitmapSize
    THEN [ret |-> 0, bitmap |-> [size |-> bitmapSize, bits |-> Range(str)]]
    ELSE [ret |-> 0 - 1, bitmap |-> "NULL"]

\* the CPU masks a virtual machine can have; the empty one is no mask
CpuMasks ==
    {<<>>, <<0>>, <<0, 1>>} \cup {<<c>> : c \in 1..MaxCpus}

\* the step of prlsdkConvertCpuInfo that fails
CpuInfoSteps ==
    {"none", "nodeGetCPUCount", "PrlVmCfg_GetCpuCount", "PrlVmCfg_GetCpuMask size",
     "VIR_ALLOC_N", "PrlVmCfg_GetCpuMask", "virBitmapNew"}

\* the virtual machines and hosts prlsdkConvertCpuInfo is called for, and
\* the failure of one step
CpuInfoEnvs ==
    {[hostcpus |-> h, cpuCount |-> c, mask |-> m, fail |-> f, code |-> 0 - 1] :
        h \in 0..MaxCpus, c \in 0..(MaxCpus + 1), m \in CpuMasks,
        f \in CpuInfoSteps}

\* prlsdkConvertCpuInfo on a zeroed def and pdom: [ret, vcpus, maxvcpus,
\* cpumask, errs, freed]; freed is the value of buf that VIR_FREE is given.
\* The result of the second PrlVmCfg_GetCpuMask is not looked at: if it
\* fails, buf is as VIR_ALLOC_N left it, the empty string
prlsdkConvertCpuInfo(e) ==
    LET out(ret, n, mask, reported, freed) ==
            [ret |-> ret, vcpus |-> n, maxvcpus |-> n, cpumask |-> mask,
             errs |-> reported, freed |-> freed]
        cpuCount == Min(e.cpuCount, e.hostcpus)
        buf == IF e.fail = "PrlVmCfg_GetCpuMask" THEN <<>> ELSE e.mask
        parsed == virBitmapParse(buf, e.hostcpus)
    IN  IF e.fail = "nodeGetCPUCount"
        THEN out(0 - 1, 0, "NULL", <<>>, "uninitialized")
        ELSE IF e.fail = "PrlVmCfg_GetCpuCount"
        THEN out(0 - 1, 0, "NULL", <<ErrPrl(e.code)>>, "uninitialized")
        ELSE IF e.fail = "PrlVmCfg_GetCpuMask size"
        THEN out(0 - 1, cpuCount, "NULL", <<ErrPrl(e.code)>>, "uninitialized")
        ELSE IF e.fail = "VIR_ALLOC_N"
        THEN out(0 - 1, cpuCount, "NULL", <<ErrOom>>, "NULL")
        ELSE IF Len(buf) = 0
        THEN IF e.fail = "virBitmapNew"
             THEN out(0 - 1, cpuCount, "NULL", <<ErrOom>>, "buf")
             ELSE out(0, cpuCount, virBitmapSetAll(virBitmapNew(e.hostcpus)),
                      <<>>, "buf")
        ELSE out(parsed.ret, cpuCount, parsed.bitmap, <<>>, "buf")

\* the snapshot handle the extractors read
HwSdkdom == 1

InitHardware ==
    /\ handles = NewHandle(<<>>, "vm", 1)
    /\ errs = <<>>
    /\ last = NoCall
    /\ pending = PRL_INVALID_HANDLE
    /\ held = {}
    /\ InitMain

ConvertCpuInfo ==
    /\ pc = "idle"
    /\ last = NoCall
    /\ \E e \in CpuInfoEnvs :
         \E r \in {prlsdkConvertCpuInfo(e)} :
             /\ last' = [op |-> "prlsdkConvertCpuInfo", env |-> e, ret |-> r.ret,
                         def |-> [vcpus |-> r.vcpus, maxvcpus |-> r.maxvcpus],
                         pdom |-> [cpumask |-> r.cpumask], freed |-> r.freed]
             /\ errs' = r.errs
    /\ UNCHANGED <<handles>> /\ UNCHANGED jobVars /\ UNCHANGED mainVars

\* position of an element in a sequence without repetitions
PosIn(seq, x) == CHOOSE i \in 1..Len(seq) : seq[i] = x

\* largest number of devices of one class a virtual machine has
MaxDevices == 2

Letters ==
    <<"a", "b", "c", "d", "e", "f", "g", "h", "i", "j", "k", "l", "m",
      "n", "o", "p", "q", "r", "s", "t", "u", "v", "w", "x", "y", "z">>

RECURSIVE DiskNameSuffix(_)
DiskNameSuffix(idx) ==
    IF idx < Len(Letters) THEN <<Letters[idx + 1]>>
    ELSE DiskNameSuffix((idx \div Len(Letters)) - 1)
         \o <<Letters[(idx % Len(Letters)) + 1]>>

\* virIndexToDiskName: the name as the sequence of its characters; no name
\* (NULL, the empty sequence) for a negative index
virIndexToDiskName(idx, prefix) ==
    IF idx < 0 THEN <<>> ELSE prefix \o DiskNameSuffix(idx)

ErrUnknownBus == <<"VIR_ERR_INTERNAL_ERROR", "Unknown disk bus", 0>>

ErrDiskIndex == <<"VIR_ERR_INTERNAL_ERROR", "Disk index is negative", 0>>

\* what the SDK calls and the switch of prlsdkGetDiskInfo do, in order
DiskInfoSteps ==
    <<"PrlVmDev_GetEmulatedType", "PrlVmDev_GetFriendlyName size",
      "VIR_ALLOC_N", "PrlVmDev_GetFriendlyName", "virDomainDiskSetSource",
      "PrlVmDev_GetIfaceType", "switch", "PrlVmDev_GetStackIndex",
      "PrlVmDev_GetIndex", "virIndexToDiskName">>

\* virDomainDiskDefNew: a disk with nothing set
NewDisk ==
    [type |-> "VIR_STORAGE_TYPE_NONE", format |-> "VIR_STORAGE_FILE_NONE",
     src |-> "NULL", bus |-> "unset", target |-> 0, dst |-> <<>>]

DiskBus(ifType) ==
    CASE ifType = "PMS_IDE_DEVICE" -> "VIR_DOMAIN_DISK_BUS_IDE"
      [] ifType = "PMS_SCSI_DEVICE" -> "VIR_DOMAIN_DISK_BUS_SCSI"
      [] ifType = "PMS_SATA_DEVICE" -> "VIR_DOMAIN_DISK_BUS_SATA"
      [] OTHER -> "unset"

\* prlsdkGetDiskInfo with a switch that takes every interface type it does
\* not know for IDE
prlsdkGetDiskInfo_DefaultIde(prldisk, fail) ==
    LET bad == {s \in Range(DiskInfoSteps) :
                    \/ s = fail
                    \/ s = "virIndexToDiskName" /\ AsInt(prldisk.index) < 0}
        stop == IF bad = {} THEN Len(DiskInfoSteps) + 1
                ELSE CHOOSE p \in {PosIn(DiskInfoSteps, s) : s \in bad} :
                         \A s \in bad : p <= PosIn(DiskInfoSteps, s)
        done(step) == PosIn(DiskInfoSteps, step) < stop
    IN  [ret |-> IF stop > Len(DiskInfoSteps) THEN 0 ELSE 0 - 1,
         disk |->
            [type |-> IF ~done("PrlVmDev_GetEmulatedType")
                      THEN NewDisk.type
                      ELSE IF prldisk.emulatedType = "PDT_USE_IMAGE_FILE"
                      THEN "VIR_STORAGE_TYPE_FILE"
                      ELSE "VIR_STORAGE_TYPE_BLOCK",
             format |-> IF done("PrlVmDev_GetEmulatedType")
                           /\ prldisk.emulatedType = "PDT_USE_IMAGE_FILE"
                        THEN "VIR_STORAGE_FILE_PLOOP"
                        ELSE NewDisk.format,
             src |-> IF done("virDomainDiskSetSource")
                     THEN prldisk.friendlyName ELSE NewDisk.src,
             bus |-> IF ~done("switch") THEN NewDisk.bus
                     ELSE IF DiskBus(prldisk.ifType) = "unset"
                     THEN "VIR_DOMAIN_DISK_BUS_IDE"
                     ELSE DiskBus(prldisk.ifType),
             target |-> IF done("PrlVmDev_GetStackIndex")
                        THEN prldisk.pos ELSE NewDisk.target,
             dst |-> IF done("virIndexToDiskName")
                     THEN virIndexToDiskName(AsInt(prldisk.index), <<"s", "d">>)
                     ELSE NewDisk.dst],
         errs |-> IF stop > Len(DiskInfoSteps) THEN <<>>
                  ELSE IF DiskInfoSteps[stop] = "switch" THEN <<ErrUnknownBus>>
                  ELSE IF DiskInfoSteps[stop] \in {"VIR_ALLOC_N", "virDomainDiskSetSource"}
                  THEN <<ErrOom>>
                  ELSE IF DiskInfoSteps[stop] = "virIndexToDiskName"
                  THEN (IF AsInt(prldisk.index) < 0 THEN <<ErrDiskIndex>>
                        ELSE <<ErrOom>>)
                  ELSE <<ErrPrl(0 - 1)>>]

\* prlsdkGetDiskInfo that names the disk after its position on the bus
prlsdkGetDiskInfo_NameFromPos(prldisk, fail) ==
    LET bad == {s \in Range(DiskInfoSteps) :
                    \/ s = fail
                    \/ s = "switch" /\ DiskBus(prldisk.ifType) = "unset"
                    \/ s = "virIndexToDiskName" /\ AsInt(prldisk.index) < 0}
        stop == IF bad = {} THEN Len(DiskInfoSteps) + 1
                ELSE CHOOSE p \in {PosIn(DiskInfoSteps, s) : s \in bad} :
                         \A s \in bad : p <= PosIn(DiskInfoSteps, s)
        done(step) == PosIn(DiskInfoSteps, step) < stop
    IN  [ret |-> IF stop > Len(DiskInfoSteps) THEN 0 ELSE 0 - 1,
         disk |->
            [type |-> IF ~done("PrlVmDev_GetEmulatedType")
                      THEN NewDisk.type
                      ELSE IF prldisk.emulatedType = "PDT_USE_IMAGE_FILE"
                      THEN "VIR_STORAGE_TYPE_FILE"
                      ELSE "VIR_STORAGE_TYPE_BLOCK",
             format |-> IF done("PrlVmDev_GetEmulatedType")
                           /\ prldisk.emulatedType = "PDT_USE_IMAGE_FILE"
                        THEN "VIR_STORAGE_FILE_PLOOP"
                        ELSE NewDisk.format,
             src |-> IF done("virDomainDiskSetSource")
                     THEN prldisk.friendlyName ELSE NewDisk.src,
             bus |-> IF done("switch")
                     THEN DiskBus(prldisk.ifType) ELSE NewDisk.bus,
             target |-> IF done("PrlVmDev_GetStackIndex")
                        THEN prldisk.pos ELSE NewDisk.target,
             dst |-> IF done("virIndexToDiskName")
                     THEN virIndexToDiskName(AsInt(prldisk.pos), <<"s", "d">>)
                     ELSE NewDisk.dst],
         errs |-> IF stop > Len(DiskInfoSteps) THEN <<>>
                  ELSE IF DiskInfoSteps[stop] = "switch" THEN <<ErrUnknownBus>>
                  ELSE IF DiskInfoSteps[stop] \in {"VIR_ALLOC_N", "virDomainDiskSetSource"}
                  THEN <<ErrOom>>
                  ELSE IF DiskInfoSteps[stop] = "virIndexToDiskName"
                  THEN (IF AsInt(prldisk.index) < 0 THEN <<ErrDiskIndex>>
                        ELSE <<ErrOom>>)
                  ELSE <<ErrPrl(0 - 1)>>]

\* prlsdkGetDiskInfo on a new disk, for the device prldisk =
\* [emulatedType, friendlyName, ifType, pos, index] and the step `fail` that
\* fails ("none": no call fails): [ret, disk, errs].  The steps before the
\* one that stops the function have set their fields of the disk
prlsdkGetDiskInfo(prldisk, fail) ==
    LET bad == {s \in Range(DiskInfoSteps) :
                    \/ s = fail
                    \/ s = "switch" /\ DiskBus(prldisk.ifType) = "unset"
                    \/ s = "virIndexToDiskName" /\ AsInt(prldisk.index) < 0}
        stop == IF bad = {} THEN Len(DiskInfoSteps) + 1
                ELSE CHOOSE p \in {PosIn(DiskInfoSteps, s) : s \in bad} :
                         \A s \in bad : p <= PosIn(DiskInfoSteps, s)
        done(step) == PosIn(DiskInfoSteps, step) < stop
    IN  [ret |-> IF stop > Len(DiskInfoSteps) THEN 0 ELSE 0 - 1,
         disk |->
            [type |-> IF ~done("PrlVmDev_GetEmulatedType")
                      THEN NewDisk.type
                      ELSE IF prldisk.emulatedType = "PDT_USE_IMAGE_FILE"
                      THEN "VIR_STORAGE_TYPE_FILE"
                      ELSE "VIR_STORAGE_TYPE_BLOCK",
             format |-> IF done("PrlVmDev_GetEmulatedType")
                           /\ prldisk.emulatedType = "PDT_USE_IMAGE_FILE"
                        THEN "VIR_STORAGE_FILE_PLOOP"
                        ELSE NewDisk.format,
             src |-> IF done("virDomainDiskSetSource")
                     THEN prldisk.friendlyName ELSE NewDisk.src,
             bus |-> IF done("switch")
                     THEN DiskBus(prldisk.ifType) ELSE NewDisk.bus,
             target |-> IF done("PrlVmDev_GetStackIndex")
                        THEN prldisk.pos ELSE NewDisk.target,
             dst |-> IF done("virIndexToDiskName")
                     THEN virIndexToDiskName(AsInt(prldisk.index), <<"s", "d">>)
                     ELSE NewDisk.dst],
         errs |-> IF stop > Len(DiskInfoSteps) THEN <<>>
                  ELSE IF DiskInfoSteps[stop] = "switch" THEN <<ErrUnknownBus>>
                  ELSE IF DiskInfoSteps[stop] \in {"VIR_ALLOC_N", "virDomainDiskSetSource"}
                  THEN <<ErrOom>>
                  ELSE IF DiskInfoSteps[stop] = "virIndexToDiskName"
                  THEN (IF AsInt(prldisk.index) < 0 THEN <<ErrDiskIndex>>
                        ELSE <<ErrOom>>)
                  ELSE <<ErrPrl(0 - 1)>>]

\* the hard disks a snapshot can report
HardDisks ==
    {[emulatedType |-> t, friendlyName |-> "/dev/vol", ifType |-> b,
      pos |-> 1 - (x % 2), index |-> x] :
        t \in {"PDT_USE_IMAGE_FILE", "PDT_USE_REAL_DEVICE"},
        b \in {"PMS_IDE_DEVICE", "PMS_SCSI_DEVICE", "PMS_SATA_DEVICE",
               "PMS_OUT_OF_RANGE"},
        x \in {0, 1, Len(Letters), UINT_MAX}}

\* the steps of one iteration of prlsdkAddDomainHardDisksInfo around
\* prlsdkGetDiskInfo
DiskLoopSteps ==
    {"PrlVmCfg_GetHardDisk", "virDomainDiskDefNew", "VIR_APPEND_ELEMENT"}

\* lists of up to MaxDevices devices: the last is any of `devices`, those
\* before it are among `firsts`
DeviceLists(devices, firsts) ==
    {<<>>} \cup
    UNION {{Append(fs, d) : fs \in [1..(n - 1) -> firsts], d \in devices} :
              n \in 1..MaxDevices}

\* the disks before the last: on IDE, on SCSI, and on an unknown bus
FirstHardDisks ==
    {d \in HardDisks :
        \/ d.emulatedType = "PDT_USE_IMAGE_FILE" /\ d.ifType = "PMS_IDE_DEVICE"
                                                 /\ d.index = 0
        \/ d.emulatedType = "PDT_USE_REAL_DEVICE" /\ d.ifType = "PMS_SCSI_DEVICE"
                                                  /\ d.index = 1
        \/ d.emulatedType = "PDT_USE_REAL_DEVICE" /\ d.ifType = "PMS_OUT_OF_RANGE"
                                                  /\ d.index = 1}

\* what prlsdkAddDomainHardDisksInfo is called for: the personality, the
\* disks of the snapshot up to the one the function stops at, and the
\* step that fails for the last of them ("count": the count query fails)
HardDisksEnvs ==
    {[isCt |-> ct, devs |-> ds, fail |-> f] :
        ct \in BOOLEAN, ds \in DeviceLists(HardDisks, FirstHardDisks) \ {<<>>},
        f \in {"none"} \cup DiskLoopSteps
                       \cup (Range(DiskInfoSteps) \ {"switch"})}
    \cup {[isCt |-> ct, devs |-> <<>>, fail |-> f] :
              ct \in BOOLEAN, f \in {"none", "count"}}

\* the iterations i.. of the loop of prlsdkAddDomainHardDisksInfo and its
\* end; st = [handles, hdd, disk, disks, errs, freed]: the handle table, the
\* variables hdd and disk (<<>>: NULL), def->disks, the errors reported
\* and the disks freed
RECURSIVE HardDisksLoop(_, _, _)
HardDisksLoop(st, e, i) ==
    LET fail == IF i = Len(e.devs) THEN e.fail ELSE "none"
        error(s) ==
            [s EXCEPT !.ret = 0 - 1,
                      !.handles = PrlHandle_Free(s.handles, s.hdd),
                      !.released = Append(@, s.hdd),
                      !.freed = @ \o s.disk,
                      !.disk = <<>>]
    IN  IF i > Len(e.devs) THEN [st EXCEPT !.ret = 0]
        ELSE IF fail = "PrlVmCfg_GetHardDisk"
        THEN error([st EXCEPT !.errs = Append(@, ErrPrl(0 - 1))])
        ELSE LET hs == NewHandle(st.handles, "hdd", i)
                 s1 == [st EXCEPT !.handles = hs, !.hdd = Len(hs)]
             IN  IF e.isCt
                 THEN HardDisksLoop(
                          [s1 EXCEPT !.handles = PrlHandle_Free(hs, s1.hdd),
                                     !.released = Append(@, s1.hdd),
                                     !.hdd = PRL_INVALID_HANDLE], e, i + 1)
                 ELSE IF fail = "virDomainDiskDefNew"
                 THEN error([s1 EXCEPT !.errs = Append(@, ErrOom)])
                 ELSE LET r == prlsdkGetDiskInfo(e.devs[i], fail)
                          s2 == [s1 EXCEPT !.disk = <<r.disk>>, !.errs = @ \o r.errs]
                          s3 == [s2 EXCEPT
                                    !.handles = PrlHandle_Free(s2.handles, s2.hdd),
                                    !.released = Append(@, s2.hdd),
                                    !.hdd = PRL_INVALID_HANDLE]
                      IN  IF r.ret < 0 THEN error(s2)
                          ELSE IF fail = "VIR_APPEND_ELEMENT"
                          THEN error([s3 EXCEPT !.errs = Append(@, ErrOom)])
                          ELSE HardDisksLoop(
                                   [s3 EXCEPT !.disks = @ \o s3.disk,
                                              !.disk = <<>>], e, i + 1)

\* prlsdkAddDomainHardDisksInfo on a def without disks: [ret, handles,
\* disks, errs, released, freed]; released are the values PrlHandle_Free
\* was called with, in order
prlsdkAddDomainHardDisksInfo(hs, e) ==
    LET st == [ret |-> 0, handles |-> hs, hdd |-> PRL_INVALID_HANDLE,
               disk |-> <<>>, disks |-> <<>>, errs |-> <<>>,
               released |-> <<>>, freed |-> <<>>]
    IN  IF e.fail = "count"
        THEN [st EXCEPT !.ret = 0 - 1, !.errs = <<ErrPrl(0 - 1)>>,
                        !.handles = PrlHandle_Free(hs, st.hdd),
                        !.released = <<st.hdd>>]
        ELSE HardDisksLoop(st, e, 1)

AddDomainHardDisksInfo ==
    /\ pc = "idle"
    /\ last = NoCall
    /\ \E e \in HardDisksEnvs :
         \E r \in {prlsdkAddDomainHardDisksInfo(handles, e)} :
             /\ handles' = r.handles
             /\ errs' = r.errs
             /\ last' = [op |-> "prlsdkAddDomainHardDisksInfo", env |-> e,
                         ret |-> r.ret, def |-> [disks |-> r.disks],
                         released |-> r.released, freed |-> r.freed,
                         before |-> handles]
    /\ UNCHANGED jobVars /\ UNCHANGED mainVars

\* what prlsdkAddVNCInfo calls, in order
VNCSteps ==
    <<"PrlVmCfg_GetVNCMode", "VIR_ALLOC gr", "PrlVmCfg_GetVNCPort",
      "VIR_ALLOC listens", "PrlVmCfg_GetVNCHostName size", "VIR_ALLOC_N",
      "PrlVmCfg_GetVNCHostName", "VIR_APPEND_ELEMENT">>

\* the remote display settings of a snapshot, and the step that fails
VNCEnvs ==
    {[vncMode |-> m, port |-> p, hostName |-> h, fail |-> f] :
        m \in {"PRD_DISABLED", "PRD_AUTO", "PRD_MANUAL"},
        p \in {5900, 5901}, h \in {"0.0.0.0", "127.0.0.1"},
        f \in {"none"} \cup Range(VNCSteps)}

\* VIR_ALLOC(gr): a graphics device with nothing set
NewGraphics ==
    [type |-> "unset", autoport |-> FALSE, port |-> 0, listens |-> <<>>]

\* the graphics device gr after the steps before position stop
VNCGraphics(e, stop) ==
    LET done(step) == PosIn(VNCSteps, step) < stop
    IN  [type |-> IF done("PrlVmCfg_GetVNCPort")
                  THEN "VIR_DOMAIN_GRAPHICS_TYPE_VNC" ELSE NewGraphics.type,
         autoport |-> done("PrlVmCfg_GetVNCPort") /\ e.vncMode = "PRD_AUTO",
         port |-> IF done("PrlVmCfg_GetVNCPort") THEN e.port
                  ELSE NewGraphics.port,
         listens |->
            IF ~done("VIR_ALLOC listens") THEN NewGraphics.listens
            ELSE <<[type |-> IF done("PrlVmCfg_GetVNCHostName")
                             THEN "VIR_DOMAIN_GRAPHICS_LISTEN_TYPE_ADDRESS"
                             ELSE "unset",
                    address |-> IF done("PrlVmCfg_GetVNCHostName")
                                THEN e.hostName
                                ELSE IF done("VIR_ALLOC_N") THEN ""
                                ELSE "NULL"]>>]

VNCErrs(e) ==
    IF e.fail = "none" THEN <<>>
    ELSE IF e.fail \in {"VIR_ALLOC gr", "VIR_ALLOC listens", "VIR_ALLOC_N",
                        "VIR_APPEND_ELEMENT"}
    THEN <<ErrOom>>
    ELSE <<ErrPrl(0 - 1)>>

\* prlsdkAddVNCInfo that adds a graphics device with nothing set when the
\* remote display is disabled
prlsdkAddVNCInfo_DisabledEmpty(e) ==
    IF e.fail = "PrlVmCfg_GetVNCMode"
    THEN [ret |-> 0 - 1, graphics |-> <<>>, errs |-> VNCErrs(e), freed |-> <<>>]
    ELSE IF e.vncMode = "PRD_DISABLED"
    THEN [ret |-> 0, graphics |-> <<NewGraphics>>, errs |-> <<>>, freed |-> <<>>]
    ELSE IF e.fail = "none"
    THEN [ret |-> 0, graphics |-> <<VNCGraphics(e, Len(VNCSteps) + 1)>>,
          errs |-> <<>>, freed |-> <<>>]
    ELSE [ret |-> 0 - 1, graphics |-> <<>>, errs |-> VNCErrs(e),
          freed |-> IF e.fail = "VIR_ALLOC gr" THEN <<>>
                    ELSE <<VNCGraphics(e, PosIn(VNCSteps, e.fail))>>]

\* prlsdkAddVNCInfo on a def without graphics devices: [ret, graphics, errs,
\* freed]; freed are the devices virDomainGraphicsDefFree is given
prlsdkAddVNCInfo(e) ==
    IF e.fail = "PrlVmCfg_GetVNCMode"
    THEN [ret |-> 0 - 1, graphics |-> <<>>, errs |-> VNCErrs(e), freed |-> <<>>]
    ELSE IF e.vncMode = "PRD_DISABLED"
    THEN [ret |-> 0, graphics |-> <<>>, errs |-> <<>>, freed |-> <<>>]
    ELSE IF e.fail = "none"
    THEN [ret |-> 0, graphics |-> <<VNCGraphics(e, Len(VNCSteps) + 1)>>,
          errs |-> <<>>, freed |-> <<>>]
    ELSE [ret |-> 0 - 1, graphics |-> <<>>, errs |-> VNCErrs(e),
          freed |-> IF e.fail = "VIR_ALLOC gr" THEN <<>>
                    ELSE <<VNCGraphics(e, PosIn(VNCSteps, e.fail))>>]

AddVNCInfo ==
    /\ pc = "idle"
    /\ last = NoCall
    /\ \E e \in VNCEnvs :
         \E r \in {prlsdkAddVNCInfo(e)} :
             /\ errs' = r.errs
             /\ last' = [op |-> "prlsdkAddVNCInfo", env |-> e, ret |-> r.ret,
                         def |-> [graphics |-> r.graphics], freed |-> r.freed]
    /\ UNCHANGED <<handles>> /\ UNCHANGED jobVars /\ UNCHANGED mainVars

PARALLELS_ROUTED_NETWORK_NAME == "Routed"

\* the canonical text of a MAC address: two hex digits for each byte,
\* colons between them
RECURSIVE MacText(_)
MacText(mac) ==
    IF Len(mac) = 0 THEN <<>>
    ELSE <<HexDigits[(mac[1] \div Len(HexDigits)) + 1],
           HexDigits[(mac[1] % Len(HexDigits)) + 1]>>
         \o (IF Len(mac) > 1 THEN <<":">> ELSE <<>>)
         \o MacText(Tail(mac))

\* number of bytes of a MAC address
VIR_MAC_BUFLEN == 6

\* virMacAddrParse: [ret, mac]; succeeds on a canonical text only
virMacAddrParse(str) ==
    IF /\ Len(str) = 3 * VIR_MAC_BUFLEN - 1
       /\ \A p \in 1..Len(str) :
              IF p % 3 = 0 THEN str[p] = ":" ELSE IsHex(str[p])
    THEN [ret |-> 0,
          mac |-> [i \in 1..VIR_MAC_BUFLEN |->
                      HexVal(str[3 * i - 2]) * Len(HexDigits)
                      + HexVal(str[3 * i - 1])]]
    ELSE [ret |-> 0 - 1, mac |-> <<>>]

\* the MAC texts PrlVmDevNet_GetMacAddressCanonical hands over: two
\* addresses, one with a character that is no hex digit, and an empty one
MacTexts ==
    {MacText(<<0, 28, 66, 170, 187, 204>>),
     MacText(<<254, 255, 1, 2, 3, 16>>),
     [MacText(<<0, 28, 66, 170, 187, 204>>) EXCEPT ![2] = "z"],
     <<>>}

\* VIR_ALLOC(net): a network device with nothing set
NewNet ==
    [type |-> "unset", ifname |-> "NULL", mac |-> <<>>, name |-> "NULL",
     linkstate |-> "VIR_DOMAIN_NET_INTERFACE_LINK_STATE_DEFAULT"]

\* an IsVenet that does not look at the personality
IsVenet_AnyDomain(netAdapter, isCt) == netAdapter.index = UINT_MAX

\* the adapter is the routed adapter of a container: index (PRL_UINT32) -1
IsVenet(netAdapter, isCt) == isCt /\ netAdapter.index = UINT_MAX

\* a link state that is up whatever PrlVmDev_IsConnected says
NetLinkState_AlwaysUp(isConnected) == "VIR_DOMAIN_NET_INTERFACE_LINK_STATE_UP"

\* the link state for the result of PrlVmDev_IsConnected
NetLinkState(isConnected) ==
    IF isConnected THEN "VIR_DOMAIN_NET_INTERFACE_LINK_STATE_UP"
    ELSE "VIR_DOMAIN_NET_INTERFACE_LINK_STATE_DOWN"

\* what prlsdkGetNetInfo calls for an adapter, in order
NetInfoPath(netAdapter, isCt) ==
    <<"PrlVmDev_GetIndex", "PrlVmDevNet_GetHostInterfaceName size",
      "VIR_ALLOC_N ifname", "PrlVmDevNet_GetHostInterfaceName">>
    \o (IF IsVenet(netAdapter, isCt) THEN <<"VIR_STRDUP">>
        ELSE <<"VIR_ALLOC_N macstr", "PrlVmDevNet_GetMacAddressCanonical",
               "virMacAddrParse", "PrlVmDev_GetEmulatedType">>
             \o (IF netAdapter.emulatedType = "PNA_ROUTED" THEN <<"VIR_STRDUP">>
                 ELSE <<"PrlVmDevNet_GetVirtualNetworkId size",
                        "VIR_ALLOC_N name", "PrlVmDevNet_GetVirtualNetworkId">>)
             \o <<"PrlVmDev_IsConnected">>)

NetInfoSteps ==
    {"PrlVmDev_GetIndex", "PrlVmDevNet_GetHostInterfaceName size",
     "VIR_ALLOC_N ifname", "PrlVmDevNet_GetHostInterfaceName", "VIR_STRDUP",
     "VIR_ALLOC_N macstr", "PrlVmDevNet_GetMacAddressCanonical",
     "PrlVmDev_GetEmulatedType", "PrlVmDevNet_GetVirtualNetworkId size",
     "VIR_ALLOC_N name", "PrlVmDevNet_GetVirtualNetworkId",
     "PrlVmDev_IsConnected"}

\* prlsdkGetNetInfo on a new device, for the adapter netAdapter = [index,
\* ifname, mac, emulatedType, networkId, isConnected] and the step `fail`
\* that fails: [ret, net, errs, macRead]; macRead says whether
\* PrlVmDevNet_GetMacAddressCanonical was called
prlsdkGetNetInfo(netAdapter, isCt, fail) ==
    LET path == NetInfoPath(netAdapter, isCt)
        bad == {p \in 1..Len(path) :
                    \/ path[p] = fail
                    \/ path[p] = "virMacAddrParse"
                       /\ virMacAddrParse(netAdapter.mac).ret < 0}
        stop == IF bad = {} THEN Len(path) + 1
                ELSE CHOOSE p \in bad : \A q \in bad : p <= q
        done(step) == \E p \in 1..(stop - 1) : path[p] = step
    IN  [ret |-> IF stop > Len(path) THEN 0 ELSE 0 - 1,
         net |->
            [type |-> "VIR_DOMAIN_NET_TYPE_NETWORK",
             ifname |-> IF done("PrlVmDevNet_GetHostInterfaceName")
                        THEN netAdapter.ifname
                        ELSE IF done("VIR_ALLOC_N ifname") THEN ""
                        ELSE NewNet.ifname,
             mac |-> IF done("virMacAddrParse")
                     THEN virMacAddrParse(netAdapter.mac).mac ELSE NewNet.mac,
             name |-> IF done("VIR_STRDUP") THEN PARALLELS_ROUTED_NETWORK_NAME
                      ELSE IF done("PrlVmDevNet_GetVirtualNetworkId")
                      THEN netAdapter.networkId
                      ELSE IF done("VIR_ALLOC_N name") THEN ""
                      ELSE NewNet.name,
             linkstate |->
                IF IsVenet(netAdapter, isCt)
                   /\ done("PrlVmDevNet_GetHostInterfaceName")
                THEN "VIR_DOMAIN_NET_INTERFACE_LINK_STATE_UP"
                ELSE IF ~done("PrlVmDev_IsConnected") THEN NewNet.linkstate
                ELSE NetLinkState(netAdapter.isConnected)],
         macRead |-> \E p \in 1..Min(stop, Len(path)) :
                         path[p] = "PrlVmDevNet_GetMacAddressCanonical",
         errs |-> IF stop > Len(path) THEN <<>>
                  ELSE IF path[stop] \in {"VIR_ALLOC_N ifname", "VIR_STRDUP",
                                          "VIR_ALLOC_N macstr", "VIR_ALLOC_N name"}
                  THEN <<ErrOom>>
                  ELSE IF path[stop] = "virMacAddrParse" THEN <<>>
                  ELSE <<ErrPrl(0 - 1)>>]

\* the network adapters a snapshot can report
NetAdapters ==
    {[index |-> x, ifname |-> "veth0", mac |-> m, emulatedType |-> t,
      networkId |-> "vnet1", isConnected |-> c] :
        x \in {0, UINT_MAX}, m \in MacTexts,
        t \in {"PNA_ROUTED", "PNA_BRIDGED_ETHERNET"}, c \in BOOLEAN}

\* the adapters before the last: a bridged one, a routed one that is not
\* connected, and one without index
FirstNetAdapters ==
    {a \in NetAdapters :
        /\ a.mac = MacText(<<0, 28, 66, 170, 187, 204>>)
        /\ \/ a.index = 0 /\ a.emulatedType = "PNA_BRIDGED_ETHERNET"
                          /\ a.isConnected
           \/ a.index = 0 /\ a.emulatedType = "PNA_ROUTED" /\ ~a.isConnected
           \/ a.index = UINT_MAX /\ a.emulatedType = "PNA_ROUTED"
                                 /\ a.isConnected}

NetLoopSteps == {"PrlVmCfg_GetNetAdapter", "VIR_ALLOC net", "VIR_APPEND_ELEMENT"}

\* the values the variable of a device handle can hold before anything was
\* assigned to it
UnsetHandles(hs) == AnyHandle(hs)

\* what prlsdkAddDomainNetInfo is called for: the personality, the adapters
\* of the snapshot up to the one the function stops at, the step that fails
\* for the last of them ("count": the count query fails), and the value
\* netAdapter holds before it is assigned
NetEnvs(hs) ==
    {[isCt |-> ct, devs |-> ds, fail |-> f, unset |-> PRL_INVALID_HANDLE] :
        ct \in BOOLEAN,
        ds \in DeviceLists(NetAdapters, FirstNetAdapters) \ {<<>>},
        f \in ({"none"} \cup NetLoopSteps \cup NetInfoSteps)
              \ {"PrlVmCfg_GetNetAdapter"}}
    \cup {[isCt |-> ct, devs |-> ds, fail |-> "PrlVmCfg_GetNetAdapter",
           unset |-> u] :
              ct \in BOOLEAN, u \in UnsetHandles(hs),
              ds \in {<<a>> : a \in FirstNetAdapters}
                     \cup {<<a, a>> : a \in FirstNetAdapters}}
    \cup {[isCt |-> ct, devs |-> <<>>, fail |-> f, unset |-> u] :
              ct \in BOOLEAN, f \in {"none", "count"}, u \in UnsetHandles(hs)}

\* the iterations i.. of the loop of prlsdkAddDomainNetInfo and its end;
\* st = [ret, handles, netAdapter, net, nets, errs, released, freed]
RECURSIVE NetLoop(_, _, _)
NetLoop(st, e, i) ==
    LET fail == IF i = Len(e.devs) THEN e.fail ELSE "none"
        error(s) ==
            [s EXCEPT !.ret = 0 - 1,
                      !.handles = PrlHandle_Free(s.handles, s.netAdapter),
                      !.released = Append(@, s.netAdapter),
                      !.freed = @ \o s.net,
                      !.net = <<>>]
    IN  IF i > Len(e.devs) THEN [st EXCEPT !.ret = 0]
        ELSE IF fail = "PrlVmCfg_GetNetAdapter"
        THEN error([st EXCEPT !.errs = Append(@, ErrPrl(0 - 1))])
        ELSE LET hs == NewHandle(st.handles, "netAdapter", i)
                 s1 == [st EXCEPT !.handles = hs, !.netAdapter = Len(hs)]
             IN  IF fail = "VIR_ALLOC net"
                 THEN error([s1 EXCEPT !.errs = Append(@, ErrOom)])
                 ELSE LET r == prlsdkGetNetInfo(e.devs[i], e.isCt, fail)
                          s2 == [s1 EXCEPT !.net = <<r.net>>, !.errs = @ \o r.errs,
                                           !.macRead = Append(@, r.macRead)]
                          s3 == [s2 EXCEPT
                                    !.handles = PrlHandle_Free(s2.handles,
                                                               s2.netAdapter),
                                    !.released = Append(@, s2.netAdapter),
                                    !.netAdapter = PRL_INVALID_HANDLE]
                      IN  IF r.ret < 0 THEN error(s2)
                          ELSE IF fail = "VIR_APPEND_ELEMENT"
                          THEN error([s3 EXCEPT !.errs = Append(@, ErrOom)])
                          ELSE NetLoop([s3 EXCEPT !.nets = @ \o s3.net,
                                                  !.net = <<>>], e, i + 1)

\* prlsdkAddDomainNetInfo on a def without network devices: [ret, handles,
\* nets, errs, released, freed, macRead]
prlsdkAddDomainNetInfo(hs, e) ==
    LET st == [ret |-> 0, handles |-> hs, netAdapter |-> e.unset,
               net |-> <<>>, nets |-> <<>>, errs |-> <<>>,
               released |-> <<>>, freed |-> <<>>, macRead |-> <<>>]
    IN  IF e.fail = "count"
        THEN [st EXCEPT !.ret = 0 - 1, !.errs = <<ErrPrl(0 - 1)>>,
                        !.handles = PrlHandle_Free(hs, st.netAdapter),
                        !.released = <<st.netAdapter>>]
        ELSE NetLoop(st, e, 1)

AddDomainNetInfo ==
    /\ pc = "idle"
    /\ last = NoCall
    /\ \E e \in NetEnvs(handles) :
         \E r \in {prlsdkAddDomainNetInfo(handles, e)} :
             /\ handles' = r.handles
             /\ errs' = r.errs
             /\ last' = [op |-> "prlsdkAddDomainNetInfo", env |-> e,
                         ret |-> r.ret, def |-> [nets |-> r.nets],
                         released |-> r.released, freed |-> r.freed,
                         macRead |-> r.macRead, before |-> handles]
    /\ UNCHANGED jobVars /\ UNCHANGED mainVars

ErrUnknownSerial == <<"VIR_ERR_INTERNAL_ERROR", "Unknown serial type", 0>>

\* what prlsdkGetSerialInfo calls, in order, and its switch
SerialInfoSteps ==
    <<"PrlVmDev_GetIndex", "PrlVmDev_GetEmulatedType",
      "PrlVmDev_GetFriendlyName size", "VIR_ALLOC_N",
      "PrlVmDev_GetFriendlyName", "switch">>

\* virDomainChrDefNew: a character device with nothing set
NewChr ==
    [deviceType |-> "unset", port |-> 0, sourceType |-> "unset",
     path |-> "NULL"]

\* a switch whose default label takes the port for a host device
SerialSourceType_DefaultDev(emulatedType) ==
    CASE emulatedType = "PDT_USE_OUTPUT_FILE" -> "VIR_DOMAIN_CHR_TYPE_FILE"
      [] emulatedType = "PDT_USE_SERIAL_PORT_SOCKET_MODE" ->
             "VIR_DOMAIN_CHR_TYPE_UNIX"
      [] OTHER -> "VIR_DOMAIN_CHR_TYPE_DEV"

\* the transport the switch of prlsdkGetSerialInfo selects, "unset" for its
\* default label
SerialSourceType(emulatedType) ==
    CASE emulatedType = "PDT_USE_OUTPUT_FILE" -> "VIR_DOMAIN_CHR_TYPE_FILE"
      [] emulatedType = "PDT_USE_SERIAL_PORT_SOCKET_MODE" ->
             "VIR_DOMAIN_CHR_TYPE_UNIX"
      [] emulatedType = "PDT_USE_REAL_DEVICE" -> "VIR_DOMAIN_CHR_TYPE_DEV"
      [] OTHER -> "unset"

\* prlsdkGetSerialInfo on a new device, for the port serialPort = [index,
\* emulatedType, friendlyName] and the step `fail` that fails: [ret, chr,
\* errs, nameFreed]; nameFreed says whether the buffer of the device name
\* was allocated and freed again
prlsdkGetSerialInfo(serialPort, fail) ==
    LET bad == {p \in 1..Len(SerialInfoSteps) :
                    \/ SerialInfoSteps[p] = fail
                    \/ SerialInfoSteps[p] = "switch"
                       /\ SerialSourceType(serialPort.emulatedType) = "unset"}
        stop == IF bad = {} THEN Len(SerialInfoSteps) + 1
                ELSE CHOOSE p \in bad : \A q \in bad : p <= q
        done(step) == PosIn(SerialInfoSteps, step) < stop
    IN  [ret |-> IF stop > Len(SerialInfoSteps) THEN 0 ELSE 0 - 1,
         chr |->
            [deviceType |-> "VIR_DOMAIN_CHR_DEVICE_TYPE_SERIAL",
             port |-> IF done("PrlVmDev_GetIndex") THEN serialPort.index
                      ELSE NewChr.port,
             sourceType |-> IF done("switch")
                            THEN SerialSourceType(serialPort.emulatedType)
                            ELSE NewChr.sourceType,
             path |-> IF done("switch") THEN serialPort.friendlyName
                      ELSE NewChr.path],
         nameFreed |-> stop <= Len(SerialInfoSteps) /\ done("VIR_ALLOC_N"),
         errs |-> IF stop > Len(SerialInfoSteps) THEN <<>>
                  ELSE IF SerialInfoSteps[stop] = "switch"
                  THEN <<ErrUnknownSerial>>
                  ELSE IF SerialInfoSteps[stop] = "VIR_ALLOC_N" THEN <<ErrOom>>
                  ELSE <<ErrPrl(0 - 1)>>]

\* the serial ports a snapshot can report
SerialPorts ==
    {[index |-> x, emulatedType |-> t, friendlyName |-> n] :
        x \in {0, 1},
        t \in {"PDT_USE_OUTPUT_FILE", "PDT_USE_SERIAL_PORT_SOCKET_MODE",
               "PDT_USE_REAL_DEVICE", "PDT_OUT_OF_RANGE"},
        n \in {"/tmp/serial.log", "/dev/ttyS0"}}

\* the ports before the last: a file, a socket, and one of unknown type
FirstSerialPorts ==
    {s \in SerialPorts :
        /\ s.friendlyName = "/tmp/serial.log"
        /\ \/ s.index = 0 /\ s.emulatedType = "PDT_USE_OUTPUT_FILE"
           \/ s.index = 1 /\ s.emulatedType = "PDT_USE_SERIAL_PORT_SOCKET_MODE"
           \/ s.index = 1 /\ s.emulatedType = "PDT_OUT_OF_RANGE"}

SerialLoopSteps ==
    {"PrlVmCfg_GetSerialPort", "virDomainChrDefNew", "VIR_APPEND_ELEMENT"}

\* what prlsdkAddSerialInfo is called for: the ports of the snapshot up to
\* the one the function stops at, the step that fails for the last of them
\* ("count": the count query fails), and the value serialPort holds before
\* it is assigned
SerialEnvs(hs) ==
    {[devs |-> ds, fail |-> f, unset |-> PRL_INVALID_HANDLE] :
        ds \in DeviceLists(SerialPorts, FirstSerialPorts) \ {<<>>},
        f \in ({"none"} \cup SerialLoopSteps \cup Range(SerialInfoSteps))
              \ {"PrlVmCfg_GetSerialPort", "switch"}}
    \cup {[devs |-> ds, fail |-> "PrlVmCfg_GetSerialPort", unset |-> u] :
              u \in UnsetHandles(hs),
              ds \in {<<s>> : s \in FirstSerialPorts}
                     \cup {<<s, s>> : s \in FirstSerialPorts}}
    \cup {[devs |-> <<>>, fail |-> f, unset |-> u] :
              f \in {"none", "count"}, u \in UnsetHandles(hs)}

\* the iterations i.. of the loop of prlsdkAddSerialInfo and its end;
\* st = [ret, handles, serialPort, chr, serials, errs, released, freed,
\* nameFreed]
RECURSIVE SerialLoop(_, _, _)
SerialLoop(st, e, i) ==
    LET fail == IF i = Len(e.devs) THEN e.fail ELSE "none"
        error(s) ==
            [s EXCEPT !.ret = 0 - 1,
                      !.handles = PrlHandle_Free(s.handles, s.serialPort),
                      !.released = Append(@, s.serialPort),
                      !.freed = @ \o s.chr,
                      !.chr = <<>>]
    IN  IF i > Len(e.devs) THEN [st EXCEPT !.ret = 0]
        ELSE IF fail = "PrlVmCfg_GetSerialPort"
        THEN error([st EXCEPT !.errs = Append(@, ErrPrl(0 - 1))])
        ELSE LET hs == NewHandle(st.handles, "serialPort", i)
                 s1 == [st EXCEPT !.handles = hs, !.serialPort = Len(hs)]
             IN  IF fail = "virDomainChrDefNew"
                 THEN error([s1 EXCEPT !.errs = Append(@, ErrOom)])
                 ELSE LET r == prlsdkGetSerialInfo(e.devs[i], fail)
                          s2 == [s1 EXCEPT !.chr = <<r.chr>>, !.errs = @ \o r.errs,
                                           !.nameFreed = Append(@, r.nameFreed)]
                          s3 == [s2 EXCEPT
                                    !.handles = PrlHandle_Free(s2.handles,
                                                               s2.serialPort),
                                    !.released = Append(@, s2.serialPort),
                                    !.serialPort = PRL_INVALID_HANDLE]
                      IN  IF r.ret # 0 THEN error(s2)
                          ELSE IF fail = "VIR_APPEND_ELEMENT"
                          THEN error([s3 EXCEPT !.errs = Append(@, ErrOom)])
                          ELSE SerialLoop([s3 EXCEPT !.serials = @ \o s3.chr,
                                                     !.chr = <<>>], e, i + 1)

\* prlsdkAddSerialInfo on an empty list of serial devices: [ret, handles,
\* serials, errs, released, freed, nameFreed]
prlsdkAddSerialInfo(hs, e) ==
    LET st == [ret |-> 0, handles |-> hs, serialPort |-> e.unset,
               chr |-> <<>>, serials |-> <<>>, errs |-> <<>>,
               released |-> <<>>, freed |-> <<>>, nameFreed |-> <<>>]
    IN  IF e.fail = "count"
        THEN [st EXCEPT !.ret = 0 - 1, !.errs = <<ErrPrl(0 - 1)>>,
                        !.handles = PrlHandle_Free(hs, st.serialPort),
                        !.released = <<st.serialPort>>]
        ELSE SerialLoop(st, e, 1)

AddSerialInfo ==
    /\ pc = "idle"
    /\ last = NoCall
    /\ \E e \in SerialEnvs(handles) :
         \E r \in {prlsdkAddSerialInfo(handles, e)} :
             /\ handles' = r.handles
             /\ errs' = r.errs
             /\ last' = [op |-> "prlsdkAddSerialInfo", env |-> e,
                         ret |-> r.ret, def |-> [serials |-> r.serials],
                         released |-> r.released, freed |-> r.freed,
                         nameFreed |-> r.nameFreed, before |-> handles]
    /\ UNCHANGED jobVars /\ UNCHANGED mainVars

\* half of the bits of a PRL_UINT32; a PRL_UINT32 is kept as <<high, low>>,
\* two halves, so that its 32 bits keep their width
Half == 2 ^ 16

\* x << n for an unsigned 32-bit x and n below 16: the bits pushed past
\* bit 31 are lost
ShiftLeft32(x, n) ==
    LET lo == x[2] * 2 ^ n
        hi == x[1] * 2 ^ n + (lo \div Half)
    IN  <<hi % Half, lo % Half>>

\* the product x * 2^n of an unsigned 32-bit x, without loss: three halves,
\* the highest first
Times2Pow(x, n) ==
    LET lo == x[2] * 2 ^ n
        hi == x[1] * 2 ^ n + (lo \div Half)
    IN  <<hi \div Half, hi % Half, lo % Half>>

\* the sizes in mebibytes a snapshot can report
Uint32s ==
    {<<h, l>> : h \in {0, 1, 63, 64, Half - 1}, l \in {0, 1, 256, Half - 1}}

VideoSteps ==
    {"PrlVmCfg_GetVideoRamSize", "VIR_ALLOC video", "VIR_ALLOC accel",
     "VIR_APPEND_ELEMENT_COPY"}

\* what prlsdkAddDomainHardware finds when it comes to the video device: the
\* personality of the def, the video RAM size of the snapshot and the step
\* that fails
VideoEnvs ==
    {[isCt |-> ct, videoRam |-> v, fail |-> f] :
        ct \in BOOLEAN, v \in Uint32s, f \in {"none"} \cup VideoSteps}

\* VIR_ALLOC(video) and VIR_ALLOC(accel): zeroed
NewVideo == [type |-> "unset", vram |-> <<0, 0>>, heads |-> 0, accel |-> <<>>]

NewAccel == [support2d |-> FALSE, support3d |-> FALSE]

\* prlsdkAddDomainVideoInfo on a def without video devices:
\* [ret, videos, errs, freed]
prlsdkAddDomainVideoInfo(e) ==
    IF e.fail = "PrlVmCfg_GetVideoRamSize"
    THEN [ret |-> 0 - 1, videos |-> <<>>, errs |-> <<ErrPrl(0 - 1)>>,
          freed |-> <<>>]
    ELSE IF e.fail = "VIR_ALLOC video"
    THEN [ret |-> 0 - 1, videos |-> <<>>, errs |-> <<ErrOom>>, freed |-> <<>>]
    ELSE IF e.fail = "VIR_ALLOC accel"
    THEN [ret |-> 0 - 1, videos |-> <<>>, errs |-> <<ErrOom>>,
          freed |-> <<"video">>]
    ELSE IF e.fail = "VIR_APPEND_ELEMENT_COPY"
    THEN [ret |-> 0 - 1, videos |-> <<>>, errs |-> <<ErrOom>>,
          freed |-> <<"accel", "video">>]
    ELSE [ret |-> 0,
          videos |-> <<[type |-> "VIR_DOMAIN_VIDEO_TYPE_VGA",
                        vram |-> ShiftLeft32(e.videoRam, 10),
                        heads |-> 1,
                        accel |-> <<NewAccel>>]>>,
          errs |-> <<>>, freed |-> <<>>]

\* a prlsdkAddDomainHardware that attaches a video device to containers too
HardwareVideo_AnyDomain(e) == prlsdkAddDomainVideoInfo(e)

\* the first step of prlsdkAddDomainHardware: the video device, for a def
\* that is no container
HardwareVideo(e) ==
    IF ~e.isCt THEN prlsdkAddDomainVideoInfo(e)
    ELSE [ret |-> 0, videos |-> <<>>, errs |-> <<>>, freed |-> <<>>]

AddDomainVideoInfo ==
    /\ pc = "idle"
    /\ last = NoCall
    /\ \E e \in VideoEnvs :
         \E r \in {HardwareVideo(e)} :
             /\ errs' = r.errs
             /\ last' = [op |-> "prlsdkAddDomainVideoInfo", env |-> e,
                         ret |-> r.ret, def |-> [videos |-> r.videos],
                         freed |-> r.freed]
    /\ UNCHANGED <<handles>> /\ UNCHANGED jobVars /\ UNCHANGED mainVars

\* an unsigned 32-bit value assigned to an unsigned long long: the halves
\* above bit 31 are zero (three halves are kept, the highest first)
Widen32(x) == <<0>> \o x

\* what the RAM step of prlsdkLoadDomain finds: the RAM size of the snapshot
\* in mebibytes and whether PrlVmCfg_GetRamSize fails
RamEnvs == {[ram |-> r, fail |-> f] : r \in Uint32s, f \in BOOLEAN}

\* prlsdkLoadDomain, the RAM parameters of a new def: [ret, mem, errs]
prlsdkLoadDomainRam(e) ==
    IF e.fail
    THEN [ret |-> 0 - 1,
          mem |-> [max_balloon |-> <<0, 0, 0>>, cur_balloon |-> <<0, 0, 0>>],
          errs |-> <<ErrPrl(0 - 1)>>]
    ELSE LET max_balloon == Widen32(ShiftLeft32(e.ram, 10))
         IN  [ret |-> 0,
              mem |-> [max_balloon |-> max_balloon, cur_balloon |-> max_balloon],
              errs |-> <<>>]

LoadDomainRam ==
    /\ pc = "idle"
    /\ last = NoCall
    /\ \E e \in RamEnvs :
         \E r \in {prlsdkLoadDomainRam(e)} :
             /\ errs' = r.errs
             /\ last' = [op |-> "prlsdkLoadDomainRam", env |-> e,
                         ret |-> r.ret, def |-> [mem |-> r.mem]]
    /\ UNCHANGED <<handles>> /\ UNCHANGED jobVars /\ UNCHANGED mainVars

NextHardware ==
    \/ ConvertCpuInfo
    \/ AddDomainHardDisksInfo
    \/ AddVNCInfo
    \/ AddDomainNetInfo
    \/ AddSerialInfo
    \/ AddDomainVideoInfo
    \/ LoadDomainRam

SpecHardware == InitHardware /\ [][NextHardware]_vars

---------------------------------------------------------------------------
(* xml.c: the virBuffer functions and virDomainParseXMLDesc.  A memory     *)
(* block is an entry of `heap`; a pointer is an index of it, 0 is NULL.    *)
(* bytes is what was written into the block, from its first byte on, over  *)
(* is how far past its end the block was written, frees counts the times   *)
(* it was freed.  A pointer argument that can be NULL is a sequence of no  *)
(* or one element.                                                         *)

\* what virBufferGrow adds to the size it is asked for
GROW_SLACK == 1000

\* what virBufferVSprintf asks virBufferGrow for
VSPRINTF_GROW == 1000

\* the size virDomainParseXMLDesc gives its buffer
PARSE_BUFFER_SIZE == 1000

Max(a, b) == IF a > b THEN a ELSE b

\* the one element of a set of one element
Only(S) == CHOOSE v \in S : TRUE

\* n bytes c
Fill(c, n) == IF n > 0 THEN [i \in 1..n |-> c] ELSE <<>>

malloc(hp, size) ==
    Append(hp, [size |-> size, bytes |-> <<>>, frees |-> 0, over |-> 0])

free(hp, p) ==
    IF p \in 1..Len(hp) THEN [hp EXCEPT ![p].frees = @ + 1] ELSE hp

\* what realloc can do with a block: fail, resize it where it is, or move
\* it to a new block and free the old one
ReallocOutcomes == {"fail", "inplace", "move"}

\* realloc(p, size): [ptr, heap]
realloc(hp, p, size, how) ==
    CASE how = "fail" -> [ptr |-> 0, heap |-> hp]
      [] how = "inplace" -> [ptr |-> p, heap |-> [hp EXCEPT ![p].size = size]]
      [] OTHER ->
            [ptr |-> Len(hp) + 1,
             heap |-> Append([hp EXCEPT ![p].frees = @ + 1],
                             [size |-> size,
                              bytes |-> SubSeq(hp[p].bytes, 1,
                                               Min(Len(hp[p].bytes), size)),
                              frees |-> 0, over |-> 0])]

\* the bytes `data` stored at offset `at` (from 0) of block p: what lies
\* inside the block lands in bytes, the rest is counted in over
Store(hp, p, at, data) ==
    LET b == hp[p]
        fits == Min(Len(data), Max(0, b.size - at))
        old == b.bytes \o Fill("?", at - Len(b.bytes))
    IN  [hp EXCEPT ![p].bytes = IF fits = 0 THEN @
                                ELSE SubSeq(old, 1, at) \o SubSeq(data, 1, fits)
                                     \o SubSeq(old, at + fits + 1, Len(old)),
                   ![p].over = Max(@, at + Len(data) - b.size)]

ErrXmlNoMemory == <<"VIR_ERR_NO_MEMORY", "growing buffer", 0>>

\* virBufferGrow(buf, len): [ret, heap, buf, errs]
virBufferGrow(hp, b, len, how) ==
    IF b = <<>>
    THEN [ret |-> 0 - 1, heap |-> hp, buf |-> b, errs |-> <<>>]
    ELSE IF len + b[1].use < b[1].size
    THEN [ret |-> 0, heap |-> hp, buf |-> b, errs |-> <<>>]
    ELSE LET size == b[1].use + len + GROW_SLACK
             r == realloc(hp, b[1].content, size, how)
         IN  IF r.ptr = 0
             THEN [ret |-> 0 - 1, heap |-> hp, buf |-> b,
                   errs |-> <<ErrXmlNoMemory>>]
             ELSE [ret |-> size - b[1].use, heap |-> r.heap,
                   buf |-> <<[b[1] EXCEPT !.content = r.ptr, !.size = size]>>,
                   errs |-> <<>>]

\* virBufferAdd(buf, str, len): [ret, heap, buf, errs]; grown says whether
\* virBufferGrow was called
virBufferAdd(hp, b, str, len, how) ==
    IF str = <<>> \/ b = <<>>
    THEN [ret |-> 0 - 1, heap |-> hp, buf |-> b, errs |-> <<>>, grown |-> FALSE]
    ELSE IF len = 0
    THEN [ret |-> 0, heap |-> hp, buf |-> b, errs |-> <<>>, grown |-> FALSE]
    ELSE LET n == IF len < 0 THEN Len(str[1]) ELSE len
             needSize == b[1].use + n + 2
             grown == needSize > b[1].size
             g == IF grown THEN virBufferGrow(hp, b, needSize, how)
                  ELSE [ret |-> 1, heap |-> hp, buf |-> b, errs |-> <<>>]
         IN  IF g.ret = 0
             THEN [ret |-> 0 - 1, heap |-> g.heap, buf |-> g.buf,
                   errs |-> g.errs, grown |-> grown]
             ELSE LET nb == g.buf[1]
                      h1 == Store(g.heap, nb.content, nb.use,
                                  SubSeq(str[1], 1, n))
                      h2 == Store(h1, nb.content, nb.use + n, <<NUL>>)
                  IN  [ret |-> 0, heap |-> h2,
                       buf |-> <<[nb EXCEPT !.use = nb.use + n]>>,
                       errs |-> g.errs, grown |-> grown]

\* vsnprintf(&content[at], size, ...) for the formatted output `out`: at
\* most size - 1 bytes of it and a NUL are stored; it returns Len(out)
vsnprintf(hp, p, at, size, out) ==
    IF size = 0 THEN hp
    ELSE IF size < 0 THEN Store(hp, p, at, out \o <<NUL>>)
    ELSE Store(hp, p, at, SubSeq(out, 1, Min(Len(out), size - 1)) \o <<NUL>>)

\* virBufferVSprintf: the vsnprintf in the condition of its loop and the
\* test of its result; when the output does not fit, the first statement
\* of the loop body, otherwise the statements after the loop.  size is the
\* local of that name.  [fits, heap, buf]
virBufferVSprintfTry(hp, b, size, out) ==
    LET count == Len(out)
        h1 == vsnprintf(hp, b[1].content, b[1].use, size, out)
    IN  IF count >= size - 1
        THEN [fits |-> FALSE,
              heap |-> Store(h1, b[1].content, b[1].use, <<NUL>>),
              buf |-> b]
        ELSE [fits |-> TRUE,
              heap |-> Store(h1, b[1].content, b[1].use + count, <<NUL>>),
              buf |-> <<[b[1] EXCEPT !.use = @ + count]>>]

\* virBufferVSprintf: the rest of the loop body, after an output that did
\* not fit.  [done, ret, heap, buf, size, errs]
virBufferVSprintfGrow(hp, b, size, how) ==
    Only({IF g.ret < 0
          THEN [done |-> TRUE, ret |-> 0 - 1, heap |-> g.heap, buf |-> g.buf,
                size |-> size, errs |-> g.errs]
          ELSE [done |-> FALSE, ret |-> 0, heap |-> g.heap, buf |-> g.buf,
                size |-> g.buf[1].size - g.buf[1].use - 1, errs |-> g.errs] :
          g \in {virBufferGrow(hp, b, VSPRINTF_GROW, how)}})

\* virBufferVSprintf: one evaluation of the condition of its loop and, when
\* it holds, one run of the loop body.  [done, ret, heap, buf, size, errs]
virBufferVSprintfPass(hp, b, size, out, how) ==
    Only({IF t.fits
          THEN [done |-> TRUE, ret |-> 0, heap |-> t.heap, buf |-> t.buf,
                size |-> size, errs |-> <<>>]
          ELSE virBufferVSprintfGrow(t.heap, t.buf, size, how) :
          t \in {virBufferVSprintfTry(hp, b, size, out)}})

\* virBufferVSprintf for an output the loop ends on: [ret, heap, buf, errs]
RECURSIVE virBufferVSprintfLoop(_, _, _, _, _)
virBufferVSprintfLoop(hp, b, size, out, how) ==
    Only({IF p.done THEN [ret |-> p.ret, heap |-> p.heap, buf |-> p.buf,
                          errs |-> p.errs]
          ELSE virBufferVSprintfLoop(p.heap, p.buf, p.size, out, how) :
          p \in {virBufferVSprintfPass(hp, b, size, out, how)}})

virBufferVSprintf(hp, b, out, how) ==
    IF b = <<>>
    THEN [ret |-> 0 - 1, heap |-> hp, buf |-> b, errs |-> <<>>]
    ELSE virBufferVSprintfLoop(hp, b, b[1].size - b[1].use - 1, out, how)

---------------------------------------------------------------------------
(* SpecBuffer: one call of a buffer function on a buffer as virBufferNew   *)
(* and earlier calls can have left it.                                     *)

\* most passes of the loop of virBufferVSprintf that are counted
MaxPasses == 3

\* the buffers the calls start from, [size, use]: new ones and used ones,
\* small ones and one with more free space than VSPRINTF_GROW
InitialBuffers ==
    {[size |-> s, use |-> u] : s \in {8, 1200}, u \in {0, 3, 7}}

\* the strings handed to virBufferAdd
Strings == {<<"a">>, <<"a", "b", "c", "d">>, <<"a", "b", "c", "d", "e", "f">>}

\* the lengths of the formatted output of virBufferVSprintf
OutputLengths == {0, 2, 5, 1198, 1998}

\* how a call can end: it returns, or, once it wrote past the end of a block
\* or freed a block twice, the process is aborted
Endings(hp) ==
    IF \E p \in 1..Len(hp) : hp[p].over > 0 \/ hp[p].frees > 1
    THEN {"returns", "aborts"} ELSE {"returns"}

InitBuffer ==
    /\ handles = <<>>
    /\ errs = <<>>
    /\ last = NoCall
    /\ pending = PRL_INVALID_HANDLE
    /\ held = {}
    /\ drv = "start"
    /\ lib = [inits |-> 0, deinits |-> 0]
    /\ privconn = [server |-> PRL_INVALID_HANDLE, jobTimeout |-> 0]
    /\ domains = {}
    /\ doms = <<>>
    /\ defs = <<>>
    /\ pdoms = <<>>
    /\ pc = "idle"
    /\ cs = NoFrame
    /\ ld = NoFrame
    /\ nops = 0
    /\ \E b \in InitialBuffers :
         /\ heap = <<[size |-> b.size,
                      bytes |-> IF b.use = 0 THEN <<>>
                                ELSE Fill("p", b.use) \o <<NUL>>,
                      frees |-> 0, over |-> 0]>>
         /\ buffer = [content |-> 1, use |-> b.use, size |-> b.size]

\* virBufferAdd(buf, str, len), buf being the buffer or NULL
BufferAdd ==
    /\ pc = "idle"
    /\ last = NoCall
    /\ \E b \in {<<>>, <<buffer>>}, str \in {<<>>} \cup {<<s>> : s \in Strings},
          how \in ReallocOutcomes :
       \E len \in {0 - 1, 0} \cup (IF str = <<>> THEN {} ELSE {Len(str[1])}) :
       \E r \in {virBufferAdd(heap, b, str, len, how)} :
       \E ends \in Endings(r.heap) :
         /\ r.grown \/ how = "inplace"
         /\ heap' = r.heap
         /\ buffer' = IF b = <<>> THEN buffer ELSE r.buf[1]
         /\ errs' = r.errs
         /\ last' = [op |-> "virBufferAdd", buf |-> b, str |-> str, len |-> len,
                     ret |-> r.ret, ends |-> ends,
                     realloc |-> IF r.grown THEN how ELSE "none",
                     before |-> heap]
    /\ UNCHANGED <<handles, pending, held, drv, lib, privconn, domains, doms,
                   defs, pdoms, pc, cs, ld, nops>>

\* virBufferVSprintf(buf, format, ...) up to its loop; count is the length
\* of the formatted output
VSprintfBegin ==
    /\ pc = "idle"
    /\ last = NoCall
    /\ \E count \in OutputLengths, b \in {<<>>, <<buffer>>} :
         IF b = <<>>
         THEN /\ count = 0
              /\ last' = [op |-> "virBufferVSprintf", buf |-> b,
                          count |-> count, ret |-> 0 - 1, passes |-> 0,
                          ends |-> "returns", before |-> heap]
              /\ UNCHANGED <<pc, cs>>
         ELSE /\ pc' = "vs_loop"
              /\ cs' = [fn |-> "virBufferVSprintf", count |-> count,
                        size |-> buffer.size - buffer.use - 1, passes |-> 0,
                        before |-> heap, buf |-> b]
              /\ UNCHANGED last
    /\ UNCHANGED <<handles, errs, pending, held, drv, lib, privconn, domains,
                   doms, defs, pdoms, ld, nops, heap, buffer>>

\* the condition of the loop of virBufferVSprintf: the output fits and the
\* call returns 0, or it does not and the loop body is entered
VSprintfPass ==
    /\ pc = "vs_loop"
    /\ \E r \in {virBufferVSprintfTry(heap, <<buffer>>, cs.size,
                                       Fill("f", cs.count))} :
         /\ heap' = r.heap
         /\ buffer' = r.buf[1]
         /\ IF r.fits
            THEN /\ pc' = "idle"
                 /\ cs' = NoFrame
                 /\ last' = [op |-> "virBufferVSprintf", buf |-> cs.buf,
                             count |-> cs.count, ret |-> 0,
                             passes |-> cs.passes, ends |-> "returns",
                             before |-> cs.before]
            ELSE /\ pc' = "vs_grow"
                 /\ UNCHANGED <<cs, last>>
    /\ UNCHANGED <<handles, errs, pending, held, drv, lib, privconn, domains,
                   doms, defs, pdoms, ld, nops>>

\* the body of the loop of virBufferVSprintf: virBufferGrow, then back to
\* the condition, or -1 when it failed
VSprintfGrow ==
    /\ pc = "vs_grow"
    /\ \E how \in ReallocOutcomes :
       \E r \in {virBufferVSprintfGrow(heap, <<buffer>>, cs.size, how)} :
         /\ how = "inplace"
            \/ r # virBufferVSprintfGrow(heap, <<buffer>>, cs.size, "inplace")
         /\ heap' = r.heap
         /\ buffer' = r.buf[1]
         /\ errs' = r.errs
         /\ IF r.done
            THEN /\ pc' = "idle"
                 /\ cs' = NoFrame
                 /\ last' = [op |-> "virBufferVSprintf", buf |-> cs.buf,
                             count |-> cs.count, ret |-> r.ret,
                             passes |-> cs.passes, ends |-> "returns",
                             before |-> cs.before]
            ELSE /\ pc' = "vs_loop"
                 /\ cs' = [cs EXCEPT !.size = r.size,
                                     !.passes = Min(@ + 1, MaxPasses)]
                 /\ UNCHANGED last
    /\ UNCHANGED <<handles, pending, held, drv, lib, privconn, domains, doms,
                   defs, pdoms, ld, nops>>

\* the checks of virDomainParseXMLDesc that can send it to its error label,
\* in the order the function makes them
ParseOrder ==
    <<"xmlReadDoc", "root", "type", "xmlXPathNewContext", "name", "strdup",
      "os", "disk", "interface">>

\* the place of a check in ParseOrder; a document with neither an os element
\* nor a bootloader fails where the os description is analysed
ParsePos(step) ==
    IF step = "noOs" THEN 7
    ELSE CHOOSE i \in 1..Len(ParseOrder) : ParseOrder[i] = step

\* the document gets past the check `step`
ParsePast(doc, step) ==
    doc.fail \in {"none", "malloc"} \/ ParsePos(doc.fail) > ParsePos(step)

\* the documents handed to virDomainParseXMLDesc: the length of the name,
\* the numbers of disks and interfaces, whether the caller passes `name`,
\* and the check that fails.  The names are those on which the loop of
\* virBufferVSprintf ends.
Documents ==
    {d \in [nameLen : {4, 1200}, disks : 0..1, ifs : 0..1, wantName : BOOLEAN,
            fail : {"none", "malloc", "noOs"} \cup Range(ParseOrder)] :
        /\ d.fail = "disk" => d.disks > 0
        /\ d.fail = "interface" => d.ifs > 0}

VmOpen == <<"(", "v", "m", " ">>

NameText(n) ==
    <<"(", "n", "a", "m", "e", " ", "'">> \o Fill("n", n) \o <<"'", ")">>

MemoryText ==
    <<"(", "m", "e", "m", "o", "r", "y", " ", "1", "2", "8", ")",
      "(", "m", "a", "x", "m", "e", "m", " ", "1", "2", "8", ")">>

VcpusText == <<"(", "v", "c", "p", "u", "s", " ", "1", ")">>

\* what virDomainParseXMLOSDesc, virDomainParseXMLDiskDesc and
\* virDomainParseXMLIfDesc append when they return 0
OsText == <<"(", "i", "m", "a", "g", "e", " ", "(", "l", "i", "n", "u", "x",
            ")", ")">>

DiskText == <<"(", "v", "b", "d", " ", "(", "d", "e", "v", " ", "'", "h", "d",
              "a", "'", ")", ")">>

IfText == <<"(", "v", "i", "f", " ", "(", "m", "a", "c", " ", "'", "m", "'",
            ")", ")">>

DeviceOpen == <<"(", "d", "e", "v", "i", "c", "e", " ">>

Close == <<")">>

\* the calls of virBufferAdd ("add") and virBufferVSprintf ("printf") that
\* virDomainParseXMLDesc makes on a document, up to the check that fails
ParseAppends(doc) ==
    LET add(t) == <<[fn |-> "add", text |-> t]>>
        printf(t) == <<[fn |-> "printf", text |-> t]>>
        device(n, step, t) ==
            IF n = 0 THEN <<>>
            ELSE add(DeviceOpen)
                 \o (IF doc.fail = step THEN <<>> ELSE printf(t) \o add(Close))
    IN  (IF ParsePast(doc, "type") THEN add(VmOpen) ELSE <<>>)
        \o (IF ParsePast(doc, "name")
            THEN printf(NameText(doc.nameLen)) ELSE <<>>)
        \o (IF ParsePast(doc, "strdup")
            THEN printf(MemoryText) \o printf(VcpusText) ELSE <<>>)
        \o (IF ParsePast(doc, "os") THEN printf(OsText) ELSE <<>>)
        \o (IF ParsePast(doc, "os")
            THEN device(doc.disks, "disk", DiskText) ELSE <<>>)
        \o (IF ParsePast(doc, "disk")
            THEN device(doc.ifs, "interface", IfText) ELSE <<>>)
        \o (IF doc.fail = "none" THEN add(Close) ELSE <<>>)

ErrXmlNoName == <<"VIR_ERR_NO_NAME", "xmldesc", 0>>

ErrXmlCopyingName == <<"VIR_ERR_NO_MEMORY", "copying name", 0>>

ErrXmlNoOs == <<"VIR_ERR_NO_OS", "nam", 0>>

\* what the failing check of a document reports
ParseError(doc) ==
    CASE doc.fail = "name" -> <<ErrXmlNoName>>
      [] doc.fail = "strdup" -> <<ErrXmlCopyingName>>
      [] doc.fail = "noOs" -> <<ErrXmlNoOs>>
      [] OTHER -> <<>>

\* the calls ops[i..] made on the buffer st.buf, their results ignored as
\* virDomainParseXMLDesc ignores them: [heap, buf, errs]
RECURSIVE ParseRun(_, _, _, _)
ParseRun(st, ops, i, how) ==
    IF i > Len(ops) THEN st
    ELSE Only({ParseRun(next, ops, i + 1, how) :
               next \in {[heap |-> r.heap, buf |-> r.buf,
                          errs |-> st.errs \o r.errs] :
                         r \in {IF ops[i].fn = "add"
                                THEN virBufferAdd(st.heap, st.buf,
                                                  <<ops[i].text>>,
                                                  Len(ops[i].text), how)
                                ELSE virBufferVSprintf(st.heap, st.buf,
                                                       ops[i].text, how)}}})

\* virDomainParseXMLDesc(xmldesc, name): [ret, name, heap, buf, errs]; ret
\* is the pointer returned, name what *name is left as ("none" when the
\* caller passed no name), buf the local buffer at the end
virDomainParseXMLDesc(hp, doc, how) ==
    LET unset == IF doc.wantName THEN "NULL" ELSE "none"
    IN  IF doc.fail = "malloc"
        THEN [ret |-> 0, name |-> unset, heap |-> hp, buf |-> <<>>,
              errs |-> <<>>]
        ELSE LET h0 == malloc(hp, PARSE_BUFFER_SIZE)
                 ret == Len(h0)
             IN  Only({IF doc.fail = "none"
                       THEN [ret |-> ret,
                             name |-> IF doc.wantName THEN "nam" ELSE "none",
                             heap |-> Store(run.heap, run.buf[1].content,
                                            run.buf[1].use, <<NUL>>),
                             buf |-> run.buf, errs |-> run.errs]
                       ELSE [ret |-> 0, name |-> unset,
                             heap |-> free(run.heap, ret), buf |-> run.buf,
                             errs |-> run.errs \o ParseError(doc)] :
                       run \in {ParseRun([heap |-> h0,
                                          buf |-> <<[content |-> ret,
                                                     use |-> 0,
                                                     size |->
                                                       PARSE_BUFFER_SIZE]>>,
                                          errs |-> <<>>],
                                         ParseAppends(doc), 1, how)}})

\* virDomainParseXMLDesc(xmldesc, name)
ParseXMLDesc ==
    /\ pc = "idle"
    /\ last = NoCall
    /\ \E doc \in Documents, how \in ReallocOutcomes :
       \E r \in {virDomainParseXMLDesc(heap, doc, how)} :
       \E ends \in Endings(r.heap) :
         /\ how = "inplace" \/ r # virDomainParseXMLDesc(heap, doc, "inplace")
         /\ heap' = r.heap
         /\ errs' = r.errs
         /\ last' = [op |-> "virDomainParseXMLDesc", doc |-> doc,
                     realloc |-> how, ret |-> r.ret, name |-> r.name,
                     buf |-> r.buf, ends |-> ends, before |-> heap]
    /\ UNCHANGED <<handles, pending, held, drv, lib, privconn, domains, doms,
                   defs, pdoms, pc, cs, ld, nops, buffer>>

NextBuffer ==
    \/ BufferAdd
    \/ VSprintfBegin
    \/ VSprintfPass
    \/ VSprintfGrow
    \/ ParseXMLDesc

SpecBuffer == InitBuffer /\ [][NextBuffer]_vars

\* a call that is in the loop of virBufferVSprintf goes on running
SpecBufferFair ==
    SpecBuffer /\ WF_vars(VSprintfPass) /\ WF_vars(VSprintfGrow)

---------------------------------------------------------------------------
(* Properties of the job protocol, checked under SpecJob *)

\* the await that `last` records ran to a successful result
AwaitOk ==
    /\ last.env.wait = 0
    /\ last.env.getRetCode = 0
    /\ last.env.retCode = 0
    /\ ~PRL_FAILED(last.env.getResult)

\* the event and result handles obtained during the await that `last` records
AwaitHandles ==
    {h \in (Len(last.before) + 1) .. Len(handles) :
        handles[h].kind \in {"event", "result"}}

\* C1: getJobResult releases the job handle it is given exactly once on
\* every exit path: a job that was awaited has been released once, whatever
\* the outcome of the wait and of the fetches, and a job that is still to be
\* awaited has not been released.
C1_JobReleasedOnce ==
    \A h \in 1 .. Len(handles) :
        handles[h].kind = "job" =>
            handles[h].rel = (IF h = pending THEN 0 ELSE 1)

\* a wait that timed out, after which the job is released
C1_Witness ==
    /\ last.op = "getJobResult"
    /\ last.env.wait = PRL_ERR_TIMEOUT
    /\ handles[last.job].rel = 1

\* C3: an await yields a result handle (waitJob: returns 0) if and only if
\* the wait succeeded, the return code was fetched and is zero and the
\* result was fetched; then no error is reported.  Otherwise there is no
\* result, an error has been reported, and every result or event handle
\* obtained during the await has been released.  waitJob leaves no result
\* handle unreleased either way.
C3_ResultXorError ==
    last.op \in {"getJobResult", "waitJob"} =>
        /\ last.op = "getJobResult" =>
               (last.result # PRL_INVALID_HANDLE <=> AwaitOk)
        /\ last.op = "waitJob" => (last.ret = 0 <=> AwaitOk)
        /\ AwaitOk => errs = <<>>
        /\ ~AwaitOk =>
               /\ errs # <<>>
               /\ last.result = PRL_INVALID_HANDLE
               /\ \A h \in AwaitHandles : handles[h].rel = handles[h].acq
        /\ last.op = "waitJob" =>
               \A h \in AwaitHandles : handles[h].rel = handles[h].acq

\* a failed operation whose error event could not be decoded: an error is
\* reported and the event handle is released
C3_Witness ==
    /\ last.op = "getJobResult"
    /\ last.env.retCode # 0
    /\ last.env.getError = 0
    /\ last.env.evErrCode # 0
    /\ last.result = PRL_INVALID_HANDLE
    /\ errs # <<>>
    /\ \E h \in AwaitHandles :
         handles[h].kind = "event" /\ handles[h].rel = 1

\* C4: when the return code of a completed job is a failure code and the
\* richer error cannot be obtained (PrlJob_GetError fails, or the event
\* cannot be decoded), the last error reported is the coarse return code of
\* the job (the messages being allocatable).
C4_CoarseCodeReported ==
    (/\ last.op \in {"getJobResult", "waitJob"}
     /\ last.env.wait = 0
     /\ last.env.getRetCode = 0
     /\ last.env.retCode # 0
     /\ last.env.logMem
     /\ (last.env.getError # 0 \/ last.env.evErrCode # 0 \/ ~last.env.evMem))
    => /\ errs # <<>>
       /\ errs[Len(errs)] = ErrPrl(last.env.retCode)

---------------------------------------------------------------------------
(* Properties of the session and of prlsdkLoadDomain, checked under Spec *)

\* C2: over a run of prlsdkConnect, prlsdkLoadDomains, prlsdkAddDomain and
\* prlsdkDisconnect no job handle is released more than once.
C2_JobNeverReleasedTwice ==
    \A h \in 1 .. Len(handles) :
        handles[h].kind = "job" => handles[h].rel <= 1

\* C5: after a prlsdkConnect that returned -1 the connection does not refer
\* to a released server handle.
C5_NoReleasedServerKept ==
    (last.op = "prlsdkConnect" /\ last.ret = 0 - 1) =>
        \/ privconn.server = PRL_INVALID_HANDLE
        \/ Live(handles, privconn.server)

\* C6: every prlsdkDisconnect issues one job, the logoff, which is awaited
\* and so released, releases the server handle of the connection exactly
\* once, and hands the driver on to prlsdkDeinit, whether or not the logoff
\* succeeded.
C6_DisconnectReleasesServer ==
    [][(last'.op = "prlsdkDisconnect" /\ last'.n # last.n) =>
          /\ Len(handles') \in {Len(handles) + 1, Len(handles) + 2}
          /\ handles'[Len(handles) + 1].kind = "job"
          /\ \A h \in (Len(handles) + 1) .. Len(handles') :
                 handles'[h].rel = 1 /\ handles'[h].acq = 1
          /\ handles'[privconn.server].rel = handles[privconn.server].rel + 1
          /\ handles[privconn.server].rel = 0
          /\ \A h \in 1 .. Len(handles) :
                 h # privconn.server => handles'[h] = handles[h]
          /\ last'.ret = 0
          /\ drv' = "disconnected"
          /\ privconn' = privconn]_vars

\* a logoff that failed, after which the server handle is released
C6_Witness ==
    /\ last.op = "prlsdkDisconnect"
    /\ errs # <<>>
    /\ handles[privconn.server].kind = "server"
    /\ handles[privconn.server].rel = 1

FreshReturned == pc \in {"lds_after", "add_after"} /\ ld.olddom = 0

\* the objects of the store are what they were when prlsdkLoadDomain began
StoreAsBefore ==
    /\ domains = ld.store0.domains
    /\ \A d \in domains :
         /\ doms[d] = ld.store0.doms[d]
         /\ defs[doms[d].def] = ld.store0.defs[doms[d].def]
         /\ pdoms[doms[d].privateData] = ld.store0.pdoms[doms[d].privateData]

\* C8: when a fresh discovery fails in the hardware extraction,
\* prlsdkLoadDomain returns NULL, the store holds no object with the UUID of
\* the machine, and the objects of the store are what they were before.
C8_HardwareFailureLeavesStore ==
    (FreshReturned /\ ld.fail \in HardwareSteps) =>
        /\ ld.ret = 0
        /\ virDomainObjListFindByUUID(domains, doms, defs,
                                      handles[ld.sdkdom].uuid) = 0
        /\ StoreAsBefore

\* the network adapters of a second machine cannot be read while the store
\* holds the first
C8_Witness ==
    /\ FreshReturned
    /\ ld.fail = "netInfo"
    /\ ld.ret = 0
    /\ domains # {}

\* C9, as claimed: a freshly discovered object is not in the store while its
\* state or its autostart option is still to be fetched.
C9_NotVisibleBeforeValidated ==
    (pc \in {"ld_state", "ld_autostart"} /\ ld.olddom = 0) =>
        ld.dom \notin domains

\* C9, amended: the definition of every object of the store was extracted
\* completely before the object was added; the state and the autostart
\* option of a fresh object are fetched after it was added, while it is
\* locked, and an object of the store that is unlocked has a converted
\* state and a retained snapshot handle, which are set only once these
\* were validated.
C9_ValidatedBeforeUnlocked ==
    /\ \A d \in domains :
         /\ defs[doms[d].def].built = "complete"
         /\ ~doms[d].locked =>
              /\ doms[d].reason # "VIR_DOMAIN_SHUTOFF_UNKNOWN"
              /\ pdoms[doms[d].privateData].sdkdom # PRL_INVALID_HANDLE
    /\ (pc \in {"ld_state", "ld_autostart", "ld_retain"} /\ ld.olddom = 0) =>
         /\ ld.dom \in domains
         /\ doms[ld.dom].locked

\* a fresh object that is in the store, locked, before its state was fetched
C9_Witness ==
    /\ pc = "ld_state"
    /\ ld.olddom = 0
    /\ ld.dom \in domains
    /\ doms[ld.dom].locked
    /\ doms[ld.dom].reason = "VIR_DOMAIN_SHUTOFF_UNKNOWN"

\* C10: when a fresh discovery fails after the object was added to the
\* store, the object is removed from the store and its definition and its
\* private data are each freed exactly once.
C10_UnwoundOnce ==
    (FreshReturned /\ ld.dom # 0 /\ ld.ret = 0) =>
        /\ ld.dom \notin domains
        /\ defs[ld.def].frees = 1
        /\ pdoms[ld.pdom].frees = 1

\* C11: a refresh that succeeds returns the object it was given; the object
\* is still in the store and still locked, and its definition is the one
\* newly built from the snapshot, complete and not freed, in place of the
\* one it had.
C11_RefreshKeepsSlot ==
    (pc = "refresh_after" /\ ld.ret # 0) =>
        /\ ld.ret = ld.olddom
        /\ ld.olddom \in domains
        /\ domains = ld.store0.domains
        /\ doms[ld.olddom].locked
        /\ doms[ld.olddom].def = ld.def
        /\ ld.def # ld.store0.doms[ld.olddom].def
        /\ defs[ld.def].built = "complete"
        /\ defs[ld.def].frees = 0
        /\ defs[ld.def].uuid = ld.store0.defs[ld.store0.doms[ld.olddom].def].uuid

\* a refresh has succeeded and the object carries a state fetched anew
C11_Witness ==
    /\ pc = "refresh_after"
    /\ ld.ret # 0
    /\ ld.ret = ld.olddom
    /\ doms[ld.olddom].def = ld.def
    /\ doms[ld.olddom].state # ld.store0.doms[ld.olddom].state

\* C12: when prlsdkLoadDomains has returned -1, none of the domains it
\* added before the failure is in the store.
C12_LoadDomainsAtomic ==
    (last.op = "prlsdkLoadDomains" /\ last.ret = 0 - 1) => domains = {}

\* C13: prlsdkAddDomain for a UUID the store holds returns the object of
\* the store with that UUID, as the store hands it out (locked): no handle
\* is created or released, so no job is issued, no error is reported, and
\* the store, the definitions, the private data and every other field of
\* every object stay as they are.  prlsdkAddDomain goes on to a lookup and
\* a load only for a UUID the store does not hold.
C13_AddKnownUnchanged ==
    [][/\ (pc = "idle" /\ pc' = "add_ret") =>
            /\ last'.op = "prlsdkAddDomain"
            /\ last'.ret \in domains
            /\ handles' = handles
            /\ errs' = <<>>
            /\ domains' = domains
            /\ defs' = defs
            /\ pdoms' = pdoms
            /\ doms' = [doms EXCEPT ![last'.ret].locked = TRUE]
       /\ (pc = "idle" /\ pc' = "ld_build" /\ cs'.fn = "prlsdkAddDomain") =>
            virDomainObjListFindByUUID(domains, doms, defs,
                                       handles'[ld'.sdkdom].uuid) = 0]_vars

\* prlsdkAddDomain has returned an object that is not the newest of the
\* store, so one the store already held
C13_Witness ==
    /\ pc = "add_ret"
    /\ last.op = "prlsdkAddDomain"
    /\ last.ret \in domains
    /\ last.ret < Len(doms)
    /\ doms[last.ret].locked
    /\ errs = <<>>

\* the handles created by the step
CreatedByStep == (Len(handles) + 1) .. Len(handles')

\* the step creates exactly one job handle and leaves the handles that
\* existed before it as they were
OneJobIssued ==
    /\ Len(handles') > Len(handles)
    /\ \A h \in 1 .. Len(handles) : handles'[h] = handles[h]
    /\ Cardinality({h \in CreatedByStep : handles'[h].kind = "job"}) = 1

\* C14: prlsdkAddDomain for a UUID the store does not hold issues exactly
\* one lookup job.  When the lookup fails it returns NULL, the last error
\* reported is the no-such-domain error, store and heap are unchanged, and
\* every handle the call created is released.  When the lookup succeeds, job
\* and result are released, the snapshot is loaded as a fresh discovery
\* (olddom = NULL), and when the load has returned prlsdkAddDomain drops
\* exactly one reference of the snapshot handle, touches no other handle and
\* returns what the load returned.
C14_AddUnknown ==
    [][/\ (/\ pc = "idle" /\ pc' = "idle"
           /\ last'.op = "prlsdkAddDomain" /\ last'.n # last.n) =>
            /\ last'.ret = 0
            /\ errs' # <<>>
            /\ errs'[Len(errs')] = ErrNoDomain
            /\ OneJobIssued
            /\ \A h \in CreatedByStep : handles'[h].rel = handles'[h].acq
            /\ UNCHANGED heapVars
       /\ (pc = "idle" /\ pc' = "ld_build" /\ cs'.fn = "prlsdkAddDomain") =>
            /\ OneJobIssued
            /\ ld'.olddom = 0
            /\ ld'.sdkdom = cs'.sdkdom
            /\ cs'.sdkdom \in CreatedByStep
            /\ handles'[cs'.sdkdom] =
                   [kind |-> "vm", acq |-> 1, rel |-> 0,
                    uuid |-> handles'[cs'.sdkdom].uuid]
            /\ \A h \in CreatedByStep \ {cs'.sdkdom} :
                   handles'[h].rel = handles'[h].acq
            /\ errs' = <<>>
            /\ UNCHANGED heapVars
       /\ pc = "add_after" =>
            /\ handles' = [handles EXCEPT ![cs.sdkdom].rel = @ + 1]
            /\ last'.op = "prlsdkAddDomain"
            /\ last'.ret = ld.ret
            /\ UNCHANGED heapVars]_vars

\* the hypervisor knows no machine with the UUID: the result of the lookup
\* held no snapshot, was released, and prlsdkAddDomain returned NULL
C14_Witness ==
    /\ pc = "idle"
    /\ last.op = "prlsdkAddDomain"
    /\ last.ret = 0
    /\ errs = <<ErrPrl(0 - 1), ErrNoDomain>>
    /\ handles[Len(handles)].kind = "result"
    /\ handles[Len(handles)].rel = 1

\* the objects whose lock is held
LockedDoms == {d \in 1 .. Len(doms) : doms[d].locked}

\* C15: during prlsdkLoadDomains at most one object is locked, and only the
\* one prlsdkLoadDomain works on: from the moment it is added to the store
\* to the moment the loop unlocks it or the error path removes it, the
\* object is locked and no other is.  Between two machines and when
\* prlsdkLoadDomains has returned, with 0 or with -1, no object is locked.
C15_OneLockThenNone ==
    /\ cs.fn = "prlsdkLoadDomains" =>
         /\ Cardinality(LockedDoms) <= 1
         /\ pc \in {"lds_loop", "ld_build", "ld_publish"} => LockedDoms = {}
         /\ pc \in {"ld_state", "ld_autostart", "ld_retain"} =>
                LockedDoms = {ld.dom}
         /\ pc = "ld_error" => LockedDoms \subseteq {ld.dom}
         /\ pc = "lds_after" =>
                LockedDoms = (IF ld.ret # 0 THEN {ld.ret} ELSE {})
    /\ (last.op = "prlsdkLoadDomains" /\ pc = "idle" /\ nops = 0) =>
         LockedDoms = {}

\* prlsdkLoadDomains has failed on its second machine, after it added and
\* unlocked the first and added and removed the second
C15_Witness ==
    /\ last.op = "prlsdkLoadDomains"
    /\ pc = "idle" /\ nops = 0
    /\ last.ret = 0 - 1
    /\ Len(doms) = 2
    /\ doms[2].disposed
    /\ 1 \in domains
    /\ LockedDoms = {}

\* C16: when a refresh of an object returns, with success or failure, the
\* snapshot handle retained in the private data of the object is the one
\* that was retained before, it was acquired for the object once (one
\* PrlHandle_AddRef on top of the reference of its creator), the destructor
\* has not run on the private data, and the reference acquired for the
\* object has not been released.
C16_RetainedHeldOverRefresh ==
    pc = "refresh_after" =>
        LET p == doms[ld.olddom].privateData
            h == pdoms[p].sdkdom
        IN  /\ p = ld.store0.doms[ld.olddom].privateData
            /\ h = ld.store0.pdoms[p].sdkdom
            /\ handles[h].acq = 2
            /\ pdoms[p].frees = 0
            /\ handles[h].rel < handles[h].acq


---------------------------------------------------------------------------
(* Properties of prlsdkConvertDomainState, checked under SpecConvert *)

\* the call that `last` records was a conversion
Converted == last.op = "prlsdkConvertDomainState"

\* C17: every known run-state converts successfully, without an error
\* report, to the one lifecycle state and reason the table gives for it:
\* STOPPED, MOUNTED to SHUTOFF/shutdown; STARTING, COMPACTING, RESETTING,
\* PAUSING, RECONNECTING, RUNNING to RUNNING/booted; PAUSED to PAUSED/user;
\* SUSPENDED, DELETING_STATE, SUSPENDING_SYNC to SHUTOFF/saved; STOPPING to
\* SHUTDOWN/user; SNAPSHOTING to PAUSED/snapshot; MIGRATING to
\* PAUSED/migration; SUSPENDING to PAUSED/save; RESTORING, RESUMING to
\* RUNNING/restored; CONTINUING to RUNNING/unpaused; UNKNOWN to
\* NOSTATE/unknown.  Run-state running with instance id 42 gives RUNNING,
\* booted, id 42.
C17_StateTableTotal ==
    (Converted /\ last.domainState \in VmStates) =>
        LET s == last.domainState
            now == DomFields(doms, defs, 1)
            is(st, rs) == now.state = st /\ now.reason = rs
        IN  /\ last.ret = 0
            /\ errs = <<>>
            /\ s \in {"VMS_STOPPED", "VMS_MOUNTED"} =>
                   is("VIR_DOMAIN_SHUTOFF", "VIR_DOMAIN_SHUTOFF_SHUTDOWN")
            /\ s \in {"VMS_STARTING", "VMS_COMPACTING", "VMS_RESETTING",
                      "VMS_PAUSING", "VMS_RECONNECTING", "VMS_RUNNING"} =>
                   is("VIR_DOMAIN_RUNNING", "VIR_DOMAIN_RUNNING_BOOTED")
            /\ s = "VMS_PAUSED" =>
                   is("VIR_DOMAIN_PAUSED", "VIR_DOMAIN_PAUSED_USER")
            /\ s \in {"VMS_SUSPENDED", "VMS_DELETING_STATE",
                      "VMS_SUSPENDING_SYNC"} =>
                   is("VIR_DOMAIN_SHUTOFF", "VIR_DOMAIN_SHUTOFF_SAVED")
            /\ s = "VMS_STOPPING" =>
                   is("VIR_DOMAIN_SHUTDOWN", "VIR_DOMAIN_SHUTDOWN_USER")
            /\ s = "VMS_SNAPSHOTING" =>
                   is("VIR_DOMAIN_PAUSED", "VIR_DOMAIN_PAUSED_SNAPSHOT")
            /\ s = "VMS_MIGRATING" =>
                   is("VIR_DOMAIN_PAUSED", "VIR_DOMAIN_PAUSED_MIGRATION")
            /\ s = "VMS_SUSPENDING" =>
                   is("VIR_DOMAIN_PAUSED", "VIR_DOMAIN_PAUSED_SAVE")
            /\ s \in {"VMS_RESTORING", "VMS_RESUMING"} =>
                   is("VIR_DOMAIN_RUNNING", "VIR_DOMAIN_RUNNING_RESTORED")
            /\ s = "VMS_CONTINUING" =>
                   is("VIR_DOMAIN_RUNNING", "VIR_DOMAIN_RUNNING_UNPAUSED")
            /\ s = "VMS_UNKNOWN" =>
                   is("VIR_DOMAIN_NOSTATE", "VIR_DOMAIN_NOSTATE_UNKNOWN")
            /\ (s = "VMS_RUNNING" /\ last.envId = 42) => now.id = 42

\* a paused domain is reported as resuming with instance id 42 and becomes
\* RUNNING/restored
C17_Witness ==
    /\ Converted
    /\ last.domainState = "VMS_RESUMING"
    /\ last.envId = 42
    /\ last.before.state = "VIR_DOMAIN_PAUSED"
    /\ last.ret = 0
    /\ doms[1].state = "VIR_DOMAIN_RUNNING"
    /\ doms[1].reason = "VIR_DOMAIN_RUNNING_RESTORED"


\* C18: after a successful conversion on the definition prlsdkLoadDomain
\* has made (id -1), with an instance id that fits an int, the id is -1
\* exactly when the state is SHUTOFF, and for every other state (RUNNING,
\* PAUSED, SHUTDOWN, NOSTATE) it is the instance id reported
C18_IdUnassignedIffShutoff ==
    (/\ Converted
     /\ last.ret = 0
     /\ last.before.id = 0 - 1
     /\ AsInt(last.envId) = last.envId) =>
        LET now == DomFields(doms, defs, 1)
        IN  /\ (now.id = 0 - 1) <=> (now.state = "VIR_DOMAIN_SHUTOFF")
            /\ now.state # "VIR_DOMAIN_SHUTOFF" => now.id = last.envId


\* C19: a run-state value outside the known set makes the conversion fail
\* with the unknown-domain-state error, and the domain's lifecycle state,
\* reason and id are then exactly what they were before the call
C19_UnknownStateFails ==
    (Converted /\ last.domainState \notin VmStates) =>
        /\ last.ret = 0 - 1
        /\ errs = <<ErrUnknownState>>
        /\ DomFields(doms, defs, 1) = last.before

\* a running domain with id 42 is reported in a state the switch does not
\* know, and stays running with id 42
C19_Witness ==
    /\ Converted
    /\ last.domainState = "VMS_OUT_OF_RANGE"
    /\ last.before = [state |-> "VIR_DOMAIN_RUNNING",
                      reason |-> "VIR_DOMAIN_RUNNING_BOOTED", id |-> 42]
    /\ last.ret = 0 - 1
    /\ errs # <<>>
    /\ doms[1].state = "VIR_DOMAIN_RUNNING"
    /\ defs[doms[1].def].id = 42


---------------------------------------------------------------------------
(* Properties of the UUID codec, checked under SpecCodec *)

\* C20: the wire form prlsdkUUIDFormat gives for a UUID is its canonical
\* text with one bracket character before and one after it, and
\* prlsdkUUIDParse of that wire form succeeds, reports nothing, stays inside
\* the string and yields the UUID that was formatted
C20_CodecRoundTrip ==
    /\ last.op = "prlsdkUUIDFormat" =>
           /\ last.uuidstr = <<"{">> \o virUUIDFormat(last.uuid) \o <<"}">>
           /\ Len(last.uuidstr) = 2 * VIR_UUID_BUFLEN + 4 + 2
    /\ (last.op = "prlsdkUUIDParse"
        /\ last.uuidstr = <<"{">> \o virUUIDFormat(last.formatted) \o <<"}">>) =>
           /\ last.ret = 0
           /\ last.uuid = last.formatted
           /\ ~last.outside
           /\ errs = <<>>

\* the UUID ab bc cd ... was formatted and parsed back
C20_Witness ==
    /\ last.op = "prlsdkUUIDParse"
    /\ last.ret = 0
    /\ Len(last.uuidstr) = VIR_UUID_STRING_BUFLEN + 1
    /\ last.formatted[1] = 171
    /\ last.formatted[2] = 188
    /\ last.uuidstr[1] = "{"
    /\ SubSeq(last.uuidstr, 2, 9) = <<"a", "b", "b", "c", "c", "d", "d", "e">>
    /\ last.uuidstr[10] = "-"
    /\ last.uuidstr[Len(last.uuidstr)] = "}"
    /\ last.uuid = last.formatted


\* the string is a canonical UUID text between "{" and "}"
WellFormedWire(uuidstr) ==
    /\ Len(uuidstr) = VIR_UUID_STRING_BUFLEN + 1
    /\ uuidstr[1] = "{"
    /\ uuidstr[Len(uuidstr)] = "}"
    /\ virUUIDParse(SubSeq(uuidstr, 2, Len(uuidstr) - 1)).ret = 0

\* C21: prlsdkUUIDParse of a string that is not a canonical UUID text
\* between brackets (a bracket missing, another character in a bracket's
\* place, a character that is no hex digit, the empty string) fails with
\* the malformed-UUID error, yields no UUID and reads and writes nothing
\* outside the string
C21_MalformedWireFails ==
    (last.op = "prlsdkUUIDParse" /\ ~WellFormedWire(last.uuidstr)) =>
        /\ last.ret = 0 - 1
        /\ errs = <<ErrMalformedUuid>>
        /\ last.uuid = <<>>
        /\ ~last.outside


---------------------------------------------------------------------------
(* Properties of the extractors, checked under SpecHardware *)

\* C22: when prlsdkConvertCpuInfo succeeds for a machine with c CPUs on a
\* host with h CPUs, vcpus and maxvcpus are the smaller of c and h, and the
\* private CPU mask has h bits: all set if the machine's mask is empty, the
\* CPUs the machine's mask names otherwise
C22_CpuInfoClamped ==
    (last.op = "prlsdkConvertCpuInfo" /\ last.ret = 0) =>
        LET e == last.env
        IN  /\ last.def.vcpus = Min(e.cpuCount, e.hostcpus)
            /\ last.def.maxvcpus = Min(e.cpuCount, e.hostcpus)
            /\ last.pdom.cpumask.size = e.hostcpus
            /\ last.pdom.cpumask.bits =
                   IF e.mask = <<>> THEN 0..(e.hostcpus - 1) ELSE Range(e.mask)


\* the call that `last` records was prlsdkAddDomainHardDisksInfo
DisksAdded == last.op = "prlsdkAddDomainHardDisksInfo"

KnownBuses == {"PMS_IDE_DEVICE", "PMS_SCSI_DEVICE", "PMS_SATA_DEVICE"}

\* C23: every disk prlsdkAddDomainHardDisksInfo has put on the list of a
\* domain that is no container is a file in ploop format if its emulated
\* type is image file and a block device without a format otherwise, and
\* its target name is "sd" followed by letters that depend on the device
\* index alone: "sda" for index 0, "sdb" for index 1, "sdaa" for index 26
C23_DiskKindAndName ==
    DisksAdded =>
        LET disks == last.def.disks
            devs == last.env.devs
        IN  /\ last.env.isCt => disks = <<>>
            /\ \A i \in 1..Len(disks) :
                 /\ devs[i].emulatedType = "PDT_USE_IMAGE_FILE" =>
                        /\ disks[i].type = "VIR_STORAGE_TYPE_FILE"
                        /\ disks[i].format = "VIR_STORAGE_FILE_PLOOP"
                 /\ devs[i].emulatedType # "PDT_USE_IMAGE_FILE" =>
                        /\ disks[i].type = "VIR_STORAGE_TYPE_BLOCK"
                        /\ disks[i].format = "VIR_STORAGE_FILE_NONE"
                 /\ SubSeq(disks[i].dst, 1, 2) = <<"s", "d">>
                 /\ devs[i].index = 0 => disks[i].dst = <<"s", "d", "a">>
                 /\ devs[i].index = 1 => disks[i].dst = <<"s", "d", "b">>
                 /\ devs[i].index = Len(Letters) =>
                        disks[i].dst = <<"s", "d", "a", "a">>
                 /\ \A j \in 1..Len(disks) :
                        devs[i].index = devs[j].index <=>
                            disks[i].dst = disks[j].dst

\* an image file with index 0 and a real device with index 26 were added
C23_Witness ==
    /\ DisksAdded
    /\ last.ret = 0
    /\ ~last.env.isCt
    /\ Len(last.def.disks) = 2
    /\ last.def.disks[1].type = "VIR_STORAGE_TYPE_FILE"
    /\ last.def.disks[1].dst = <<"s", "d", "a">>
    /\ last.def.disks[2].type = "VIR_STORAGE_TYPE_BLOCK"
    /\ last.def.disks[2].dst = <<"s", "d", "a", "a">>
    /\ last.def.disks[2].target = 1


\* C27: every disk prlsdkAddDomainHardDisksInfo has put on the list has
\* bus IDE, SCSI or SATA, the one its interface type names; if a disk of a
\* domain that is no container has any other interface type, the call
\* fails, that disk and those after it are not on the list, the disk is
\* freed, and the error reported is the unknown-bus error unless a step
\* before the switch failed for that disk
C27_DiskBusKnownOrFail ==
    DisksAdded =>
        LET disks == last.def.disks
            devs == last.env.devs
            unknown == {i \in 1..Len(devs) : devs[i].ifType \notin KnownBuses}
            beforeSwitch ==
                {DiskInfoSteps[p] : p \in 1..(PosIn(DiskInfoSteps, "switch") - 1)}
                \cup {"PrlVmCfg_GetHardDisk", "virDomainDiskDefNew"}
        IN  /\ \A i \in 1..Len(disks) :
                 /\ devs[i].ifType \in KnownBuses
                 /\ disks[i].bus = "VIR_DOMAIN_DISK_BUS_IDE" <=>
                        devs[i].ifType = "PMS_IDE_DEVICE"
                 /\ disks[i].bus = "VIR_DOMAIN_DISK_BUS_SCSI" <=>
                        devs[i].ifType = "PMS_SCSI_DEVICE"
                 /\ disks[i].bus = "VIR_DOMAIN_DISK_BUS_SATA" <=>
                        devs[i].ifType = "PMS_SATA_DEVICE"
            /\ (~last.env.isCt /\ unknown # {}) =>
                 /\ last.ret = 0 - 1
                 /\ \A i \in unknown : Len(disks) < i
                 /\ Len(last.freed) <= 1
                 /\ \A i \in 1..Len(last.freed) : last.freed[i].dst = <<>>
                 /\ ~(Len(devs) \in unknown /\ last.env.fail \in beforeSwitch) =>
                        /\ errs = <<ErrUnknownBus>>
                        /\ Len(last.freed) = 1

\* the second disk has an interface type the switch does not know: the
\* first disk is on the list, the second was freed
C27_Witness ==
    /\ DisksAdded
    /\ ~last.env.isCt
    /\ Len(last.env.devs) = 2
    /\ last.env.devs[1].ifType = "PMS_IDE_DEVICE"
    /\ last.env.devs[2].ifType = "PMS_OUT_OF_RANGE"
    /\ last.env.fail = "none"
    /\ last.ret = 0 - 1
    /\ errs = <<ErrUnknownBus>>
    /\ Len(last.def.disks) = 1
    /\ last.def.disks[1].bus = "VIR_DOMAIN_DISK_BUS_IDE"
    /\ Len(last.freed) = 1


\* C24: prlsdkAddVNCInfo leaves a domain whose remote display is disabled
\* without any graphics device; for any other mode a successful call leaves
\* exactly one, of type VNC, with autoport set exactly when the mode is
\* auto, the port of the snapshot, and one listen entry of type address
\* holding the host name of the snapshot (auto, 5901, 0.0.0.0 gives
\* autoport, port 5901 and the one listen address 0.0.0.0)
C24_VncDescriptor ==
    (last.op = "prlsdkAddVNCInfo" /\ last.ret = 0) =>
        LET e == last.env
            graphics == last.def.graphics
        IN  /\ e.vncMode = "PRD_DISABLED" => graphics = <<>>
            /\ e.vncMode # "PRD_DISABLED" =>
                 /\ Len(graphics) = 1
                 /\ graphics[1].type = "VIR_DOMAIN_GRAPHICS_TYPE_VNC"
                 /\ graphics[1].autoport <=> e.vncMode = "PRD_AUTO"
                 /\ graphics[1].port = e.port
                 /\ graphics[1].listens =
                        <<[type |-> "VIR_DOMAIN_GRAPHICS_LISTEN_TYPE_ADDRESS",
                           address |-> e.hostName]>>
            /\ (e.vncMode = "PRD_AUTO" /\ e.port = 5901 /\ e.hostName = "0.0.0.0") =>
                 /\ graphics[1].autoport
                 /\ graphics[1].port = 5901
                 /\ Len(graphics[1].listens) = 1
                 /\ graphics[1].listens[1].address = "0.0.0.0"

\* a snapshot with mode auto, port 5901 and host name 0.0.0.0 was read
C24_Witness ==
    /\ last.op = "prlsdkAddVNCInfo"
    /\ last.ret = 0
    /\ last.env.vncMode = "PRD_AUTO"
    /\ last.env.port = 5901
    /\ last.env.hostName = "0.0.0.0"
    /\ Len(last.def.graphics) = 1
    /\ last.def.graphics[1].autoport


\* what the caller of an await gets to see when the calls of the await
\* recorded in `last` have the outcomes e: whether a result was returned,
\* and the errors reported
AwaitOutcome(e) ==
    LET r == getJobResultHelper(last.before, last.job, e)
    IN  [ok |-> r.result # PRL_INVALID_HANDLE, errs |-> r.errs]

\* C25: what the caller sees of an await whose PrlJob_Wait ran into the
\* deadline (return value and reported errors) differs from what it sees
\* of an await that fails in any other way: a wait that fails with another
\* code, or a job that completed with a failure
C25_TimeoutDistinguished ==
    (/\ last.op \in {"getJobResult", "waitJob"}
     /\ last.env.wait = PRL_ERR_TIMEOUT) =>
        \A e \in JobEnvs(last.timeout) :
            e.wait # PRL_ERR_TIMEOUT =>
                AwaitOutcome(e) # AwaitOutcome(last.env)


\* the call that `last` records was prlsdkAddDomainNetInfo
NetsAdded == last.op = "prlsdkAddDomainNetInfo"

\* the adapter reports the index (uint32) -1
NoIndex(netAdapter) == netAdapter.index = UINT_MAX

\* C28: an adapter of a container that reports the index (uint32) -1 is
\* put on the list without its MAC being read, with link state up and the
\* routed network name, whatever its emulated type, MAC text and connected
\* flag are; an adapter with that index of a domain that is no container
\* has its MAC read and is on the list only if the MAC parses
C28_ContainerRoutedAdapter ==
    NetsAdded =>
        LET nets == last.def.nets
            devs == last.env.devs
        IN  \A i \in 1..Len(nets) :
                NoIndex(devs[i]) =>
                    IF last.env.isCt
                    THEN /\ ~last.macRead[i]
                         /\ nets[i].mac = <<>>
                         /\ nets[i].linkstate =
                                "VIR_DOMAIN_NET_INTERFACE_LINK_STATE_UP"
                         /\ nets[i].name = PARALLELS_ROUTED_NETWORK_NAME
                    ELSE /\ last.macRead[i]
                         /\ virMacAddrParse(devs[i].mac).ret = 0
                         /\ nets[i].mac = virMacAddrParse(devs[i].mac).mac
                         /\ Len(nets[i].mac) = VIR_MAC_BUFLEN

\* a container's adapter without index, bridged, not connected and with an
\* unparsable MAC text is on the list
C28_Witness ==
    /\ NetsAdded
    /\ last.ret = 0
    /\ last.env.isCt
    /\ Len(last.def.nets) = 1
    /\ NoIndex(last.env.devs[1])
    /\ last.env.devs[1].emulatedType = "PNA_BRIDGED_ETHERNET"
    /\ ~last.env.devs[1].isConnected
    /\ virMacAddrParse(last.env.devs[1].mac).ret < 0
    /\ last.def.nets[1].name = PARALLELS_ROUTED_NETWORK_NAME

\* C29: every adapter on the list other than a container's adapter without
\* index has the MAC its canonical text parses to, the routed network name
\* if its emulated type is routed and the snapshot's virtual network id
\* otherwise, and link state up if the snapshot says it is connected, down
\* if not; if the MAC text of such an adapter does not parse, the call
\* fails and the adapter is not on the list
C29_OrdinaryAdapter ==
    NetsAdded =>
        LET nets == last.def.nets
            devs == last.env.devs
            ordinary(i) == ~(last.env.isCt /\ NoIndex(devs[i]))
        IN  /\ \A i \in 1..Len(nets) :
                 ordinary(i) =>
                     /\ virMacAddrParse(devs[i].mac).ret = 0
                     /\ nets[i].mac = virMacAddrParse(devs[i].mac).mac
                     /\ nets[i].name =
                            IF devs[i].emulatedType = "PNA_ROUTED"
                            THEN PARALLELS_ROUTED_NETWORK_NAME
                            ELSE devs[i].networkId
                     /\ nets[i].linkstate =
                            IF devs[i].isConnected
                            THEN "VIR_DOMAIN_NET_INTERFACE_LINK_STATE_UP"
                            ELSE "VIR_DOMAIN_NET_INTERFACE_LINK_STATE_DOWN"
            /\ \A i \in 1..Len(devs) :
                 (ordinary(i) /\ virMacAddrParse(devs[i].mac).ret < 0) =>
                     /\ last.ret = 0 - 1
                     /\ Len(nets) < i

\* a bridged adapter that is not connected is on the list, with the MAC
\* fe:ff:01:02:03:10 parsed
C29_Witness ==
    /\ NetsAdded
    /\ last.ret = 0
    /\ Len(last.def.nets) = 2
    /\ last.env.devs[2].emulatedType = "PNA_BRIDGED_ETHERNET"
    /\ last.def.nets[2].mac = <<254, 255, 1, 2, 3, 16>>
    /\ last.def.nets[2].name = "vnet1"
    /\ last.def.nets[2].linkstate = "VIR_DOMAIN_NET_INTERFACE_LINK_STATE_DOWN"
    /\ last.def.nets[1].name = PARALLELS_ROUTED_NETWORK_NAME


\* the call that `last` records was prlsdkAddSerialInfo
SerialsAdded == last.op = "prlsdkAddSerialInfo"

KnownSerialTypes ==
    {"PDT_USE_OUTPUT_FILE", "PDT_USE_SERIAL_PORT_SOCKET_MODE",
     "PDT_USE_REAL_DEVICE"}

\* C30: every serial port on the list has the transport file, unix socket
\* or host device, the one its emulated type output file, socket mode or
\* real device names, the device name as its path, and its device index as
\* target port; a port of any other emulated type makes the call fail, is
\* not on the list, and is freed; the error is the unknown-serial-type
\* error and the device name that was fetched is freed, unless a step
\* before the switch failed for that port
C30_SerialTransportKnownOrFail ==
    SerialsAdded =>
        LET serials == last.def.serials
            devs == last.env.devs
            unknown == {i \in 1..Len(devs) :
                            devs[i].emulatedType \notin KnownSerialTypes}
        IN  /\ \A i \in 1..Len(serials) :
                 /\ devs[i].emulatedType \in KnownSerialTypes
                 /\ serials[i].sourceType = "VIR_DOMAIN_CHR_TYPE_FILE" <=>
                        devs[i].emulatedType = "PDT_USE_OUTPUT_FILE"
                 /\ serials[i].sourceType = "VIR_DOMAIN_CHR_TYPE_UNIX" <=>
                        devs[i].emulatedType = "PDT_USE_SERIAL_PORT_SOCKET_MODE"
                 /\ serials[i].sourceType = "VIR_DOMAIN_CHR_TYPE_DEV" <=>
                        devs[i].emulatedType = "PDT_USE_REAL_DEVICE"
                 /\ serials[i].path = devs[i].friendlyName
                 /\ serials[i].port = devs[i].index
                 /\ ~last.nameFreed[i]
            /\ unknown # {} =>
                 /\ last.ret = 0 - 1
                 /\ \A i \in unknown : Len(serials) < i
                 /\ \A i \in 1..Len(last.freed) : last.freed[i].path = "NULL"
                 /\ ~(Len(devs) \in unknown
                      /\ last.env.fail \notin {"none", "VIR_APPEND_ELEMENT"}) =>
                        /\ errs = <<ErrUnknownSerial>>
                        /\ Len(last.freed) = 1
                        /\ last.nameFreed[Len(last.nameFreed)]

\* the second port has an emulated type the switch does not know: the
\* first port, a file with index 0, is on the list, the second was freed
\* together with its name
C30_Witness ==
    /\ SerialsAdded
    /\ Len(last.env.devs) = 2
    /\ last.env.devs[2].emulatedType = "PDT_OUT_OF_RANGE"
    /\ last.env.fail = "none"
    /\ last.ret = 0 - 1
    /\ errs = <<ErrUnknownSerial>>
    /\ Len(last.def.serials) = 1
    /\ last.def.serials[1].sourceType = "VIR_DOMAIN_CHR_TYPE_FILE"
    /\ last.def.serials[1].port = 0
    /\ last.nameFreed = <<FALSE, TRUE>>


\* the call that `last` records was one of the three device extractors
DevicesExtracted ==
    last.op \in {"prlsdkAddDomainHardDisksInfo", "prlsdkAddDomainNetInfo",
                 "prlsdkAddSerialInfo"}

\* C26: after prlsdkAddDomainHardDisksInfo, prlsdkAddDomainNetInfo or
\* prlsdkAddSerialInfo, whether it succeeded or failed at any step, every
\* device handle it fetched has been released exactly once, and no handle
\* that it did not fetch was released: PrlHandle_Free was called only with
\* handles fetched in the call or with PRL_INVALID_HANDLE
C26_DeviceHandlesReleasedOnce ==
    DevicesExtracted =>
        /\ \A h \in (Len(last.before) + 1)..Len(handles) :
               handles[h].acq = 1 /\ handles[h].rel = 1
        /\ \A h \in 1..Len(last.before) : handles[h] = last.before[h]
        /\ \A i \in 1..Len(last.released) :
               \/ last.released[i] = PRL_INVALID_HANDLE
               \/ last.released[i] > Len(last.before)

VideosAdded == last.op = "prlsdkAddDomainVideoInfo" /\ last.ret = 0

\* C31: a def that is no container gets exactly one video device, a
\* container none; the device has one head, no acceleration flag set, and a
\* VRAM of exactly 1024 times the size the snapshot reports in mebibytes,
\* whatever 32-bit value that is
C31_VideoExact ==
    VideosAdded =>
        IF last.env.isCt THEN last.def.videos = <<>>
        ELSE /\ Len(last.def.videos) = 1
             /\ last.def.videos[1].heads = 1
             /\ last.def.videos[1].accel = <<NewAccel>>
             /\ <<0>> \o last.def.videos[1].vram = Times2Pow(last.env.videoRam, 10)

\* C39: for every 32-bit RAM size r in mebibytes the def gets max_balloon =
\* r * 1024 kibibytes exactly, and cur_balloon = max_balloon
C39_RamExact ==
    (last.op = "prlsdkLoadDomainRam" /\ last.ret = 0) =>
        /\ last.def.mem.max_balloon = Times2Pow(last.env.ram, 10)
        /\ last.def.mem.cur_balloon = last.def.mem.max_balloon

LoadReturned == pc \in {"lds_after", "add_after", "refresh_after"}

\* C32: the object prlsdkLoadDomain returns has autostart 1 exactly when the
\* hypervisor reported start-on-load and 0 exactly when it reported
\* start-manual; any other reported value makes the call fail with the
\* unknown-autostart-mode error, and an object the call had added to the
\* store is not in the store any more
C32_AutostartFlag ==
    LoadReturned =>
        /\ ld.ret # 0 =>
              /\ ld.autostart \in {"PAO_VM_START_ON_LOAD", "PAO_VM_START_MANUAL"}
              /\ doms[ld.ret].autostart = 1
                    <=> ld.autostart = "PAO_VM_START_ON_LOAD"
              /\ doms[ld.ret].autostart = 0
                    <=> ld.autostart = "PAO_VM_START_MANUAL"
        /\ ld.autostart \notin {"unset", "PAO_VM_START_ON_LOAD",
                                "PAO_VM_START_MANUAL"} =>
              /\ ld.ret = 0
              /\ errs # <<>> /\ errs[Len(errs)] = ErrUnknownAutostart
              /\ ld.olddom = 0 => ld.dom # 0 /\ ld.dom \notin domains

C32_Witness ==
    /\ LoadReturned
    /\ ld.olddom = 0 /\ ld.dom # 0
    /\ ld.autostart = "PAO_OUT_OF_RANGE"
    /\ ld.ret = 0 /\ ld.dom \notin domains

---------------------------------------------------------------------------
(* Properties of the buffer functions of xml.c                             *)

\* the number of bytes a call virBufferAdd(buf, str, len) is to append
AddCount == IF last.len < 0 THEN Len(last.str[1]) ELSE last.len

\* a call of virBufferAdd whose virBufferGrow failed has returned
GrowFailed == last.op = "virBufferAdd" /\ last.realloc = "fail"

\* C33: virBufferAdd returns -1 when virBufferGrow fails, and then writes
\* nothing past the buffer's size and leaves use and content as they were;
\* it returns 0 only when all len bytes were appended and the content is
\* NUL-terminated at index use
C33_AddAllOrNothing ==
    last.op = "virBufferAdd" =>
      /\ last.realloc = "fail" =>
           /\ last.ends = "returns"
           /\ last.ret = 0 - 1
           /\ \A p \in 1..Len(heap) : heap[p].over = 0
           /\ heap = last.before
           /\ buffer = last.buf[1]
      /\ (last.ends = "returns" /\ last.ret = 0) =>
           LET was == last.buf[1].use
               now == heap[buffer.content].bytes
           IN  /\ buffer.use = was + AddCount
               /\ Len(now) > buffer.use
               /\ SubSeq(now, was + 1, was + AddCount)
                    = SubSeq(last.str[1], 1, AddCount)
               /\ now[buffer.use + 1] = NUL
               /\ heap[buffer.content].over = 0

\* C33, the failure of virBufferGrow alone: the call returns -1 and writes
\* nothing past the end of the buffer
GrowFailureIsReported ==
    GrowFailed =>
      /\ last.ret = 0 - 1
      /\ \A p \in 1..Len(heap) : heap[p].over = 0

\* a call of virDomainParseXMLDesc has ended
Parsed == last.op = "virDomainParseXMLDesc"

\* C34: on success virDomainParseXMLDesc returns the buffer's current
\* content, 0-terminated, even when the buffer was grown or moved; on every
\* error it returns NULL, leaves *name NULL and frees the buffer content
\* exactly once
C34_ParseReturnsContent ==
    Parsed =>
      /\ last.ends = "returns"
      /\ last.doc.fail = "none" =>
           /\ last.ret # 0
           /\ last.ret = last.buf[1].content
           /\ heap[last.ret].frees = 0
           /\ Len(heap[last.ret].bytes) > last.buf[1].use
           /\ heap[last.ret].bytes[last.buf[1].use + 1] = NUL
           /\ last.doc.wantName => last.name = "nam"
      /\ last.doc.fail # "none" =>
           /\ last.ret = 0
           /\ last.doc.wantName => last.name = "NULL"
           /\ \A p \in 1..Len(heap) : heap[p].frees <= 1
           /\ last.doc.fail # "malloc" =>
                heap[last.buf[1].content].frees = 1

\* C34 while the buffer stays where malloc put it: the claim holds
ParseUnmovedReturnsContent ==
    (Parsed /\ (last.buf = <<>> \/ last.buf[1].content = Len(last.before) + 1))
      => C34_ParseReturnsContent

\* a call of virBufferVSprintf is in its retry loop
InLoop == pc \in {"vs_loop", "vs_grow"}

\* C40: virBufferVSprintf terminates for every output length and every
\* buffer state: a call that entered the retry loop eventually returns
C40_VSprintfTerminates == InLoop ~> (pc = "idle")

\* C40, the step the claim gives as the reason: each pass of the retry loop
\* that does not end the call strictly increases the buffer size
PassGrowsBuffer ==
    [][(pc = "vs_grow" /\ pc' = "vs_loop") => buffer'.size > buffer.size]_vars

\* C40, the result: a call that returns 0 has appended the whole output and
\* left use < size
VSprintfAppendedAll ==
    (last.op = "virBufferVSprintf" /\ last.ret = 0) =>
      /\ buffer.use = last.buf[1].use + last.count
      /\ buffer.use < buffer.size
      /\ heap[buffer.content].over = 0

---------------------------------------------------------------------------
(* Properties of the handles prlsdkLoadDomains releases                    *)

\* the step is the failure of PrlResult_GetParamByIndex in the loop of
\* prlsdkLoadDomains
FetchFails == pc = "lds_loop" /\ cs.i < cs.paramsCount /\ pc' = "idle"

\* C38: in prlsdkLoadDomains the loop releases each snapshot handle it
\* obtained exactly once; when fetching the i-th entry fails no handle is
\* released that was not obtained in that iteration (neither an unset one
\* at i = 0 nor the handle of iteration i-1, released already); the result
\* handle is released exactly once on every path
C38_LoopReleasesOwnHandles ==
    [][/\ pc = "lds_after" =>
            handles'[cs.sdkdom].rel = handles[cs.sdkdom].rel + 1
       /\ FetchFails =>
            \A h \in 1..Len(handles) :
                h \notin {cs.result, cs.job} => handles'[h] = handles[h]
       /\ (pc \in {"lds_loop", "lds_after"} /\ pc' = "idle") =>
            /\ handles[cs.result].rel = 0
            /\ handles'[cs.result].rel = 1]_vars

\* C38 without the failure of a fetch: every other step of the loop
\* releases the snapshot handle and the result handle as the claim says
LoopReleasesWhenFetched ==
    [][~FetchFails =>
         /\ pc = "lds_after" =>
              handles'[cs.sdkdom].rel = handles[cs.sdkdom].rel + 1
         /\ (pc \in {"lds_loop", "lds_after"} /\ pc' = "idle") =>
              /\ handles[cs.result].rel = 0
              /\ handles'[cs.result].rel = 1]_vars

---------------------------------------------------------------------------
(* Properties of repeated and of failed refreshes                          *)

\* prlsdkLoadDomain is past the replacement of the definition of olddom
\* and has not failed
Swapped ==
    /\ ld.fn = "prlsdkLoadDomain"
    /\ ld.olddom # 0
    /\ \/ pc \in {"ld_state", "ld_autostart", "ld_retain"}
       \/ pc = "refresh_after" /\ ld.ret # 0

\* C35: over successful refreshes of the same slot, two or more in a row,
\* every definition the slot was assigned is freed exactly once: def and
\* newDef never have the same definition freed twice, and the slot never
\* references a freed definition
C35_RefreshFreesDefOnce ==
    Swapped =>
      LET o == ld.store0.doms[ld.olddom]
      IN  /\ defs[o.def].frees = 1
          /\ o.newDef # 0 => defs[o.newDef].frees = 1
          /\ defs[doms[ld.olddom].def].frees = 0

\* C35 for the first refresh of a slot, whose newDef is still NULL: the old
\* definition is freed once and the slot references the new one
FirstRefreshFreesDefOnce ==
    (Swapped /\ ld.store0.doms[ld.olddom].newDef = 0) => C35_RefreshFreesDefOnce

\* prlsdkLoadDomain has returned NULL from a refresh
RefreshFailed == pc = "refresh_after" /\ ld.ret = 0

\* C36: a prlsdkLoadDomain in refresh mode that fails at any step, before
\* or after the replacement of the definition, leaves the slot in the store
\* with a live definition and live private data: neither is freed, and the
\* private data and the definition are as before the call
C36_FailedRefreshKeepsSlot ==
    RefreshFailed =>
      LET o == ld.store0.doms[ld.olddom]
          d == doms[ld.olddom]
      IN  /\ ld.olddom \in domains
          /\ d.def = o.def
          /\ defs[d.def].frees = 0
          /\ d.privateData = o.privateData
          /\ pdoms[d.privateData].frees = 0
          /\ pdoms[d.privateData] = ld.store0.pdoms[o.privateData]

\* C36, what does hold: after a failed refresh the slot is still in the
\* store
FailedRefreshStaysInStore ==
    RefreshFailed => (ld.olddom \in domains /\ ~doms[ld.olddom].disposed)

\* C36, the private data alone: it is not freed by a failed refresh
FailedRefreshKeepsPrivate ==
    RefreshFailed => pdoms[doms[ld.olddom].privateData].frees = 0

---------------------------------------------------------------------------
(* Properties of prlsdkGetDomainIds, checked under SpecCodec               *)

\* a call of prlsdkGetDomainIds in which an SDK call failed has returned
IdsFetchFailed ==
    last.op = "prlsdkGetDomainIds" /\ last.fail \in {"size", "name", "uuid"}

\* C37: when fetching the name or the wire UUID fails, on the size query,
\* on the name read or on the UUID read, prlsdkGetDomainIds returns an
\* error, frees the name buffer, and parses no UUID from a buffer the failed
\* call did not fill
C37_FetchFailureReported ==
    IdsFetchFailed =>
      /\ last.ret = 0 - 1
      /\ last.name = "NULL"
      /\ last.frees = last.allocs
      /\ last.parsed # "unfilled"
      /\ errs # <<>>

\* C37 for the failures the function does test: the size query and, besides
\* the claim, the allocation and an unparsable UUID
CheckedFailureReported ==
    (last.op = "prlsdkGetDomainIds"
     /\ (last.fail \in {"size", "VIR_ALLOC_N"} \/ last.ret < 0)) =>
      /\ last.ret = 0 - 1
      /\ last.name = "NULL"
      /\ last.frees = last.allocs
      /\ errs # <<>>

====
